---------------------------- MODULE Spec2Model ----------------------------
(***************************************************************************)
(* Model of the Binance Futures trade copier.                              *)
(*                                                                         *)
(* Two programs replicate fills of a source account as MARKET orders on a  *)
(* target account:                                                         *)
(*   - the polling service (main.py: TradeCopierService, using             *)
(*     trade_monitor.py: TradeDatabase, BinanceTradeMonitor,               *)
(*     BinanceTradeCopier), which keeps its admission records in the       *)
(*     durable table processed_trades and its cursor in the durable        *)
(*     setting monitor_start_time;                                         *)
(*   - the stream service (background_service.py: TradeCopyService), which *)
(*     keeps its admission records in the in-memory set processed_orders   *)
(*     and its outcomes in the durable table trades.                       *)
(*                                                                         *)
(* Every call to the exchange or to sqlite is one step.  A call that can   *)
(* raise is a choice between its normal outcome and the exception; the     *)
(* environment draws the exceptions it raises and the processes it kills   *)
(* from one budget (upsetBudget).                                          *)
(***************************************************************************)
EXTENDS Integers, Sequences, FiniteSets

(* ------------------------------ bounds -------------------------------- *)

\* Number of fills the source account produces in a behaviour.
MaxFills == 3

\* The page size of the trade history query.  The source passes limit=1000
\* (trade_monitor.py:178); the model scales it down so that a history
\* longer than one page is reachable.
Limit == 2

\* Upsets the environment may cause in a behaviour: an exception raised by
\* a call to the exchange or to sqlite, or the kill of a process.
MaxUpsets == 1

\* The longest list of positions the exchange answers with.
MaxPositions == 2

\* Signals that reach one polling service in a behaviour; the stop() in
\* main()'s finally clause comes on top of their calls of stop().
MaxStops == 2

(* ----------------------------- constants ------------------------------ *)

\* The instruments polled in a cycle, in the order of the source's list
\* (the first two of its five: the remaining three are handled alike).
symbols == <<"BTCUSDT", "ETHUSDT">>

\* The poller instances (TradeCopierService objects) that can exist at a
\* time over the store data/trades.db: the Streamlit panel creates a new
\* one on every start, while a stopped one may still be finishing a cycle.
Pollers == {1, 2}

Fills == 1..MaxFills

\* The browser sessions of the control panel, each with a session state
\* of its own.
Sessions == {1, 2}

\* The two accounts, by the account_type the table positions names them
\* with, in the order update_positions handles them.
Accounts == {"real", "testnet"}

(* ------------------------------ state --------------------------------- *)

VARIABLES
    \* environment
    now,                 \* the clock, in ms
    history,             \* fills of the source account, oldest first
    orders,              \* orders issued on the target account, oldest first
    upsetBudget,         \* exceptions and kills the environment may still cause
    \* TradeDatabase (data/trades.db), durable
    processed_trades,    \* trade id -> "none" (no row) or the row's copied flag
    monitor_start_time,  \* the setting: <<>> when absent, <<t>> when stored
    \* one TradeCopierService (and its monitor and copier) per poller
    pc,                  \* where the instance's thread is
    start_time,          \* BinanceTradeMonitor.start_time
    symIdx,              \* position of get_all_symbols_trades in symbols
    current_time,        \* _get_start_time: current_time, once the clock is read
    batch,               \* get_new_trades: trades still to iterate
    new_trades,          \* get_new_trades: new_trades
    all_trades,          \* get_all_symbols_trades: all_trades
    todo,                \* copy_trades: trades still to iterate
    copied_count,        \* copy_trades: copied_count
    stats,               \* TradeCopierService.stats
    \* TradeCopyService (background_service.py)
    stream_up,           \* the stream service's process is alive
    processed_orders,    \* TradeCopyService.processed_orders (in memory)
    hpc,                 \* where handle_new_trade is
    trade_info,          \* handle_new_trade: the event being handled
    result,              \* handle_new_trade: what copy_trade returned
    trades,              \* DatabaseManager's table trades, durable
    \* history of the run, read by the properties only
    forwarded,           \* trade ids passed to BinanceTradeCopier.copy_trade
    accepted,            \* per poller: trade ids it appended to new_trades
    pendingAtCrash,      \* fetched but not yet forwarded when a poller was killed
    admitted,            \* order ids ever added to processed_orders
    readmitted,          \* ids accepted again after they had been admitted
    handled,             \* order ids whose handle_new_trade has returned
    crashes,             \* kills so far
    faults,              \* exceptions so far
    \* history of a poller's cycles, read by the properties only
    polled,              \* instruments get_new_trades was called for, this cycle
    failedNow,           \* instruments whose poll failed in this cycle
    owed,                \* failed in the previous cycle, not polled again yet
    failedEver,          \* instruments whose poll has ever failed
    \* BinanceWebSocketManager (background_service.py)
    wpc,                 \* where the WebSocket thread is
    ws_running,          \* BinanceWebSocketManager.running
    reconnect_attempts,  \* BinanceWebSocketManager.reconnect_attempts
    \* history of the stream client, read by the properties only
    delays,              \* seconds slept before each reconnect since the last open
    key_fresh,           \* a listen key was obtained within the current period
    pendingFault,        \* the fault not yet followed by a connection attempt
    last_msg,            \* the last message on_message was called with
    last_called,         \* whether that message led to a call of the callback
    ws_stopped,          \* BinanceWebSocketManager.stop() has been called
    \* history of the stream service's executor, read by the properties only
    attempts,            \* order id -> calls of futures_create_order for it
    cause,               \* order id -> how the last of these calls ended
    \* history of a poller's copy_trades, read by the properties only
    pace,                \* what separates the poller from its last submission
    given,               \* the trades handed to copy_trades in this cycle
    \* DatabaseManager's table positions and TradeCopyService.update_positions
    positions,           \* the rows of the table positions, durable
    ppc,                 \* the account update_positions handles next, or "idle"
    \* history of the position passes, read by the properties only
    lastPass,            \* account -> what the last pass did for it
    lastUpdate,          \* the last committed DatabaseManager.update_positions
    \* TradeCopierService (main.py), start and stop, per poller
    running,             \* TradeCopierService.running
    tested,              \* _test_connections: the results so far
    stats_started,       \* stats['start_time'] is set
    \* history of the calls of stop(), read by the properties only
    stopped,             \* calls of stop() so far
    printed,             \* times _print_stats has printed the counters
    \* TradeCopyService (background_service.py), start and its main thread
    svc,                 \* where the main thread of the stream service is
    svc_running,         \* TradeCopyService.running
    checked,             \* start(): the results of the futures_account calls
    \* history of a worker's process, read by the properties only
    admit_log,           \* per poller: the trades appended to new_trades, in order
    submit_log,          \* per poller: the trades new_order was called for, in order
    stream_admit_log,    \* the order ids added to processed_orders, in order
    stream_submit_log,   \* the order ids futures_create_order was called for
    copy_failed,         \* per poller: calls of copy_trade that returned False
    \* the signal handlers of the two services, each on its main thread
    handlers,            \* per poller: calls of _signal_handler inside stop()
    spc,                 \* where signal_handler of the stream service is
    \* the control panel (streamlit_app.py), per browser session
    script,              \* where the session's script thread is
    service,             \* st.session_state.service: 0 for None
    service_running,     \* st.session_state.service_running
    local,               \* the start button's local variable service
    probe_time,          \* the test button's monitor: current_time
    notice               \* what the start button's handler reported last

envVars    == <<now, history, orders, upsetBudget>>
dbVars     == <<processed_trades, monitor_start_time>>
pollVars   == <<pc, start_time, symIdx, batch, new_trades, all_trades, todo,
                copied_count, stats>>
streamVars == <<stream_up, processed_orders, hpc, trade_info, result, trades>>
histVars   == <<forwarded, accepted, pendingAtCrash, admitted,
                readmitted, handled, crashes, faults>>
cycleVars  == <<polled, failedNow, owed, failedEver>>
wsVars     == <<wpc, ws_running, reconnect_attempts, delays, key_fresh,
                pendingFault, last_msg, last_called,
                   ws_stopped>>
execVars   == <<attempts, cause>>
batchVars  == <<pace, given>>
posVars    == <<positions, ppc, lastPass, lastUpdate>>
lifeVars   == <<running, tested, stats_started, stopped, printed>>
svcVars    == <<svc, svc_running, checked>>
logVars    == <<admit_log, submit_log, stream_admit_log, stream_submit_log,
                copy_failed>>
clockVars  == <<current_time>>
sigVars    == <<handlers, spc>>
panelVars  == <<script, service, service_running, local, probe_time, notice>>
vars       == <<envVars, dbVars, pollVars, streamVars, histVars, cycleVars,
                wsVars, execVars, batchVars, posVars, lifeVars, svcVars,
                logVars, clockVars, sigVars, panelVars>>

(* ----------------------------- helpers -------------------------------- *)

\* The elements of a sequence.
Range(s) == {s[i] : i \in DOMAIN s}

\* The first n elements of a sequence.
Take(s, n) == SubSeq(s, 1, IF Len(s) < n THEN Len(s) ELSE n)

\* The outcomes of a call that can raise: TRUE is the normal return, FALSE
\* the exception, which the environment raises while its budget lasts.
Outcomes == IF upsetBudget > 0 THEN {TRUE, FALSE} ELSE {TRUE}

\* Where a service is whose constructor has not returned.
Unbuilt == {"off", "clock", "set"}

\* The main thread of a polling service is not inside _signal_handler: a
\* signal handler runs on the main thread, which goes on only when the
\* handler has returned.
Unheld(p) == handlers[p] = 0

\* Accounting of one call's outcome.
Charge(ok) ==
    /\ upsetBudget' = IF ok THEN upsetBudget ELSE upsetBudget - 1
    /\ faults' = IF ok THEN faults ELSE faults + 1

(* ------------------------- the source exchange ------------------------ *)

\* The ids of a sequence of fills.
Ids(fs) == [i \in DOMAIN fs |-> fs[i].id]

\* client.get_account_trades(symbol, startTime, limit): the fills of the
\* instrument at or after startTime, oldest first, at most one page.
GetAccountTrades(symbol, startTime) ==
    Take(Ids(SelectSeq(history,
                       LAMBDA f : f.symbol = symbol /\ f.time >= startTime)),
         Limit)

\* The quantities of the fills, in thousandths of a contract, and the
\* decimal texts the exchange reports them as (q, qty).
QtyValues == <<1, 10, 500, 1000, 2500, 10000>>
QtyTexts  == <<"0.001", "0.010", "0.500", "1", "2.5", "10.000">>

\* The fills of a behaviour alternate between the two sides and go through
\* the quantities above, so that the fills differ in both.
SideOf(id) == IF id % 2 = 1 THEN "BUY" ELSE "SELL"
QtyOf(id) == QtyValues[((id - 1) % Len(QtyValues)) + 1]

\* The decimal text the exchange reports a quantity as.
FormatQty(n) == QtyTexts[CHOOSE k \in DOMAIN QtyValues : QtyValues[k] = n]

\* float(text): the number a decimal text denotes, in thousandths.
float(text) == QtyValues[CHOOSE k \in DOMAIN QtyTexts : QtyTexts[k] = text]

\* A fill occurs on the source account, one millisecond after the last
\* one: the exchange numbers the fills in the order they occur.
SourceFill ==
    /\ Len(history) < MaxFills
    /\ \E s \in Range(symbols) :
          /\ now' = now + 1
          /\ history' = Append(history,
                 [id |-> Len(history) + 1, symbol |-> s, time |-> now + 1,
                  side |-> SideOf(Len(history) + 1),
                  qty |-> FormatQty(QtyOf(Len(history) + 1))])
    /\ UNCHANGED <<orders, upsetBudget>>
    /\ UNCHANGED <<dbVars, pollVars, streamVars, histVars, cycleVars>>
    /\ UNCHANGED <<wsVars, execVars>>
    /\ UNCHANGED <<batchVars, posVars, lifeVars, svcVars>>
    /\ UNCHANGED logVars
    /\ UNCHANGED clockVars
    /\ UNCHANGED <<sigVars, panelVars>>

(* ---------------------------- TradeDatabase --------------------------- *)

\* An init_database that creates the table anew.
init_database_fresh(table) == [t \in Fills |-> "none"]

\* init_database: CREATE TABLE IF NOT EXISTS processed_trades, which leaves
\* an existing table and its rows as they are.
init_database(table) == table

\* is_trade_processed: a row with this trade_id exists, whatever its flag.
is_trade_processed(trade_id) == processed_trades[trade_id] # "none"

\* A save_trade whose row starts with copied = TRUE.
save_trade_copied(trade_id, ok) ==
    IF ok /\ ~is_trade_processed(trade_id)
    THEN [processed_trades EXCEPT ![trade_id] = "TRUE"]
    ELSE processed_trades

\* save_trade: INSERT OR IGNORE of a row with copied = FALSE; an exception
\* is swallowed and leaves the table as it was.
save_trade(trade_id, ok) ==
    IF ok /\ ~is_trade_processed(trade_id)
    THEN [processed_trades EXCEPT ![trade_id] = "FALSE"]
    ELSE processed_trades

\* mark_trade_copied: UPDATE ... SET copied = TRUE WHERE trade_id = ?, which
\* changes nothing when there is no such row.
mark_trade_copied(trade_id) ==
    IF is_trade_processed(trade_id)
    THEN [processed_trades EXCEPT ![trade_id] = "TRUE"]
    ELSE processed_trades

(* ------------------------- BinanceTradeMonitor ------------------------ *)

\* A _get_start_time that forgets the saved setting and starts from the
\* current time on every construction.
GetStartTimeNow(saved, t) == t

\* A _get_start_time that, without a saved setting, starts from the epoch
\* (the whole trade history) instead of the current time.
GetStartTimeEpoch(saved, t) == IF saved # <<>> THEN saved[1] ELSE 0

\* _get_start_time: the saved setting when there is one, else the current
\* time.
GetStartTime(saved, t) == IF saved # <<>> THEN saved[1] ELSE t

\* set_setting: INSERT OR REPLACE of the setting's row.
set_setting(value) == <<value>>

\* A get_all_symbols_trades that puts an instrument's trades in front of
\* those of the instruments polled before it.
extend_front(all, res) == res \o all

\* get_all_symbols_trades, all_trades.extend(trades).
extend(all, res) == all \o res

\* get_new_trades returns res for the current instrument;
\* get_all_symbols_trades extends all_trades and goes to the next
\* instrument, or returns to _monitoring_cycle, which counts the trades
\* found and hands them to copy_trades.
FinishSymbol(p, res) ==
    LET all == extend(all_trades[p], res) IN
    /\ batch' = [batch EXCEPT ![p] = <<>>]
    /\ new_trades' = [new_trades EXCEPT ![p] = <<>>]
    /\ IF symIdx[p] < Len(symbols)
       THEN /\ all_trades' = [all_trades EXCEPT ![p] = all]
            /\ symIdx' = [symIdx EXCEPT ![p] = symIdx[p] + 1]
            /\ pc' = [pc EXCEPT ![p] = "fetch"]
            /\ UNCHANGED <<todo, copied_count, stats>>
       ELSE /\ all_trades' = [all_trades EXCEPT ![p] = <<>>]
            /\ UNCHANGED symIdx
            /\ IF all # <<>>
               THEN /\ stats' = [stats EXCEPT ![p].total_trades_found =
                                    @ + Len(all)]
                    /\ todo' = [todo EXCEPT ![p] = all]
                    /\ copied_count' = [copied_count EXCEPT ![p] = 0]
                    /\ pc' = [pc EXCEPT ![p] = "order"]
               ELSE /\ pc' = [pc EXCEPT ![p] = "sleep"]
                    /\ UNCHANGED <<todo, copied_count, stats>>
    /\ given' = IF symIdx[p] = Len(symbols) /\ all # <<>>
                THEN [given EXCEPT ![p] = Range(all)]
                ELSE given

\* An exception that leaves get_new_trades and ends the whole cycle, as if
\* only _monitoring_cycle caught it.
AbortCycle(p) ==
    /\ batch' = [batch EXCEPT ![p] = <<>>]
    /\ new_trades' = [new_trades EXCEPT ![p] = <<>>]
    /\ all_trades' = [all_trades EXCEPT ![p] = <<>>]
    /\ pc' = [pc EXCEPT ![p] = "sleep"]
    /\ UNCHANGED <<symIdx, todo, copied_count, stats>>
    /\ UNCHANGED given

\* get_new_trades, its except clause: the failure is logged and [] is
\* returned for the instrument; get_all_symbols_trades goes on.
PollFailed(p) == FinishSymbol(p, <<>>)

\* The record of one call of the poll of the current instrument.
NotePoll(p, ok) ==
    /\ failedNow' = IF ok THEN failedNow
                    ELSE [failedNow EXCEPT ![p] = @ \cup {symIdx[p]}]
    /\ failedEver' = IF ok THEN failedEver
                     ELSE [failedEver EXCEPT ![p] = @ \cup {symIdx[p]}]

\* get_new_trades, the history query, which the exchange answers with the
\* page got.  An exception returns [] for the instrument.
FetchPage(p, got) ==
    /\ polled' = [polled EXCEPT ![p] = @ \cup {symIdx[p]}]
    /\ owed' = [owed EXCEPT ![p] = @ \ {symIdx[p]}]
    /\ \E ok \in Outcomes :
          /\ Charge(ok)
          /\ NotePoll(p, ok)
          /\ IF ~ok
             THEN PollFailed(p)
             ELSE IF got # <<>>
             THEN /\ batch' = [batch EXCEPT ![p] = got]
                  /\ new_trades' = [new_trades EXCEPT ![p] = <<>>]
                  /\ pc' = [pc EXCEPT ![p] = "check"]
                  /\ UNCHANGED <<symIdx, all_trades, todo, copied_count, stats>>
                  /\ UNCHANGED given
             ELSE FinishSymbol(p, <<>>)
    /\ UNCHANGED <<start_time, dbVars, streamVars>>
    /\ UNCHANGED <<now, history, orders>>
    /\ UNCHANGED <<forwarded, accepted, pendingAtCrash, admitted, readmitted,
                   handled, crashes>>
    /\ UNCHANGED <<wsVars, execVars>>
    /\ UNCHANGED pace
    /\ UNCHANGED <<posVars, lifeVars, svcVars>>
    /\ UNCHANGED logVars

\* get_new_trades, the history query: the exchange answers with the fills
\* of the instrument at or after start_time, oldest first.
Fetch(p) ==
    /\ pc[p] = "fetch"
    /\ Unheld(p)
    /\ FetchPage(p, GetAccountTrades(symbols[symIdx[p]], start_time[p]))
    /\ UNCHANGED clockVars
    /\ UNCHANGED <<sigVars, panelVars>>

\* The orders a page may come in.
Orderings(page) ==
    {q \in [DOMAIN page -> Range(page)] : Range(q) = Range(page)}

\* get_new_trades, the history query, answered by an exchange that does
\* not keep to an order within the page.
FetchShuffled(p) ==
    /\ pc[p] = "fetch"
    /\ Unheld(p)
    /\ \E got \in Orderings(GetAccountTrades(symbols[symIdx[p]],
                                             start_time[p])) :
          FetchPage(p, got)
    /\ UNCHANGED clockVars
    /\ UNCHANGED <<sigVars, panelVars>>

\* get_new_trades, the loop's test: is_trade_processed on the next trade.
\* A processed trade is skipped; an exception leaves the loop and returns
\* [] for the instrument, whatever new_trades held.
Check(p) ==
    /\ pc[p] = "check"
    /\ Unheld(p)
    /\ \E ok \in Outcomes :
          /\ Charge(ok)
          /\ NotePoll(p, ok)
          /\ IF ~ok
             THEN PollFailed(p)
             ELSE IF ~is_trade_processed(Head(batch[p]))
             THEN /\ pc' = [pc EXCEPT ![p] = "save"]
                  /\ UNCHANGED <<symIdx, batch, new_trades, all_trades, todo,
                                 copied_count, stats>>
                  /\ UNCHANGED given
             ELSE IF Tail(batch[p]) # <<>>
             THEN /\ batch' = [batch EXCEPT ![p] = Tail(batch[p])]
                  /\ UNCHANGED <<pc, symIdx, new_trades, all_trades, todo,
                                 copied_count, stats>>
                  /\ UNCHANGED given
             ELSE FinishSymbol(p, new_trades[p])
    /\ UNCHANGED <<polled, owed>>
    /\ UNCHANGED <<start_time, dbVars, streamVars>>
    /\ UNCHANGED <<now, history, orders>>
    /\ UNCHANGED <<forwarded, accepted, pendingAtCrash, admitted,
                   readmitted, handled, crashes>>
    /\ UNCHANGED <<wsVars, execVars>>
    /\ UNCHANGED pace
    /\ UNCHANGED <<posVars, lifeVars, svcVars>>
    /\ UNCHANGED logVars
    /\ UNCHANGED clockVars
    /\ UNCHANGED <<sigVars, panelVars>>

\* get_new_trades, the loop's body: the trade is appended to new_trades and
\* then saved; what save_trade returns is not looked at.
Save(p) ==
    /\ pc[p] = "save"
    /\ Unheld(p)
    /\ LET t == Head(batch[p])
           nt == Append(new_trades[p], t) IN
       /\ \E ok \in Outcomes :
             /\ Charge(ok)
             /\ processed_trades' = save_trade(t, ok)
       /\ accepted' = [accepted EXCEPT ![p] = @ \cup {t}]
       /\ readmitted' = IF is_trade_processed(t)
                        THEN readmitted \cup {t} ELSE readmitted
       /\ IF Tail(batch[p]) # <<>>
          THEN /\ batch' = [batch EXCEPT ![p] = Tail(batch[p])]
               /\ new_trades' = [new_trades EXCEPT ![p] = nt]
               /\ pc' = [pc EXCEPT ![p] = "check"]
               /\ UNCHANGED <<symIdx, all_trades, todo, copied_count, stats>>
               /\ UNCHANGED given
          ELSE FinishSymbol(p, nt)
    /\ UNCHANGED <<start_time, monitor_start_time, streamVars>>
    /\ UNCHANGED <<now, history, orders>>
    /\ UNCHANGED <<forwarded, pendingAtCrash, admitted, handled,
                   crashes>>
    /\ UNCHANGED cycleVars
    /\ UNCHANGED <<wsVars, execVars>>
    /\ UNCHANGED pace
    /\ UNCHANGED <<posVars, lifeVars, svcVars>>
    /\ admit_log' = [admit_log EXCEPT ![p] = Append(@, Head(batch[p]))]
    /\ UNCHANGED <<submit_log, stream_admit_log, stream_submit_log,
                   copy_failed>>
    /\ UNCHANGED clockVars
    /\ UNCHANGED <<sigVars, panelVars>>

(* ------------------------- BinanceTradeCopier ------------------------- *)

\* An order that takes the other side of the trade.
order_params_reversed(trade_data) ==
    [symbol |-> trade_data.symbol,
     side |-> IF trade_data.side = "BUY" THEN "SELL" ELSE "BUY",
     type |-> "MARKET",
     quantity |-> float(trade_data.qty)]

\* copy_trade, order_params: a MARKET order with the trade's symbol and
\* side and float(qty).
order_params(trade_data) ==
    [symbol |-> trade_data.symbol,
     side |-> trade_data.side,
     type |-> "MARKET",
     quantity |-> float(trade_data.qty)]

\* A copy_trades that gives up the rest of the batch when copy_trade
\* returns False.
AfterCopyHalt(p, done) ==
    LET cc == copied_count[p] + (IF done THEN 1 ELSE 0) IN
    /\ copy_failed' = IF done THEN copy_failed
                      ELSE [copy_failed EXCEPT ![p] = @ + 1]
    /\ IF done /\ Tail(todo[p]) # <<>>
       THEN /\ todo' = [todo EXCEPT ![p] = Tail(todo[p])]
            /\ copied_count' = [copied_count EXCEPT ![p] = cc]
            /\ pc' = [pc EXCEPT ![p] = "order"]
            /\ UNCHANGED stats
       ELSE /\ todo' = [todo EXCEPT ![p] = <<>>]
            /\ copied_count' = [copied_count EXCEPT ![p] = 0]
            /\ stats' = [stats EXCEPT ![p].total_trades_copied = @ + cc]
            /\ pc' = [pc EXCEPT ![p] = "sleep"]

\* A copy_trades that counts every trade it went through, also one whose
\* copy_trade returned False.
AfterCopyCountAll(p, done) ==
    LET cc == copied_count[p] + 1 IN
    /\ copy_failed' = IF done THEN copy_failed
                      ELSE [copy_failed EXCEPT ![p] = @ + 1]
    /\ IF Tail(todo[p]) # <<>>
       THEN /\ todo' = [todo EXCEPT ![p] = Tail(todo[p])]
            /\ copied_count' = [copied_count EXCEPT ![p] = cc]
            /\ pc' = [pc EXCEPT ![p] = "order"]
            /\ UNCHANGED stats
       ELSE /\ todo' = [todo EXCEPT ![p] = <<>>]
            /\ copied_count' = [copied_count EXCEPT ![p] = 0]
            /\ stats' = [stats EXCEPT ![p].total_trades_copied = @ + cc]
            /\ pc' = [pc EXCEPT ![p] = "sleep"]

\* copy_trades, the end of one iteration: copy_trade returned done.  After
\* the last trade copy_trades returns copied_count, which _monitoring_cycle
\* adds to its counter before the service sleeps.
AfterCopy(p, done) ==
    LET cc == copied_count[p] + (IF done THEN 1 ELSE 0) IN
    /\ copy_failed' = IF done THEN copy_failed
                      ELSE [copy_failed EXCEPT ![p] = @ + 1]
    /\ IF Tail(todo[p]) # <<>>
       THEN /\ todo' = [todo EXCEPT ![p] = Tail(todo[p])]
            /\ copied_count' = [copied_count EXCEPT ![p] = cc]
            /\ pc' = [pc EXCEPT ![p] = "order"]
            /\ UNCHANGED stats
       ELSE /\ todo' = [todo EXCEPT ![p] = <<>>]
            /\ copied_count' = [copied_count EXCEPT ![p] = 0]
            /\ stats' = [stats EXCEPT ![p].total_trades_copied = @ + cc]
            /\ pc' = [pc EXCEPT ![p] = "sleep"]

\* What separates a poller from its last call of new_order: "rested" when
\* a sleep came after it (or there was none), "submitted" when nothing did,
\* "hasty" when the call itself was made without a sleep after the one
\* before it.
Submitted(was) == IF was = "rested" THEN "submitted" ELSE "hasty"

\* copy_trades, time.sleep(0.5): taken inside the if, that is only after a
\* copy_trade that returned True.
Delayed(was, done) == IF done THEN "rested" ELSE was

\* copy_trade, client.new_order: a MARKET order for the trade is issued on
\* the target account; an exception makes copy_trade return False.
Order(p) ==
    /\ pc[p] = "order"
    /\ Unheld(p)
    /\ LET t == Head(todo[p]) IN
       /\ forwarded' = forwarded \cup {t}
       /\ \E ok \in Outcomes :
             /\ Charge(ok)
             /\ IF ok
                THEN /\ orders' = Append(orders,
                            [src |-> t, by |-> "poll",
                             admission_row |-> is_trade_processed(t),
                             params |-> order_params(history[t])])
                     /\ pc' = [pc EXCEPT ![p] = "mark"]
                     /\ UNCHANGED <<todo, copied_count, stats>>
                     /\ UNCHANGED copy_failed
                ELSE /\ AfterCopy(p, FALSE)
                     /\ UNCHANGED orders
    /\ UNCHANGED <<start_time, symIdx, batch, new_trades, all_trades>>
    /\ UNCHANGED <<dbVars, streamVars, now, history>>
    /\ UNCHANGED <<accepted, pendingAtCrash, admitted, readmitted,
                   handled, crashes>>
    /\ UNCHANGED cycleVars
    /\ UNCHANGED <<wsVars, execVars>>
    /\ pace' = [pace EXCEPT ![p] = Submitted(pace[p])]
    /\ UNCHANGED given
    /\ UNCHANGED <<posVars, lifeVars, svcVars>>
    /\ submit_log' = [submit_log EXCEPT ![p] = Append(@, Head(todo[p]))]
    /\ UNCHANGED <<admit_log, stream_admit_log, stream_submit_log>>
    /\ UNCHANGED clockVars
    /\ UNCHANGED <<sigVars, panelVars>>

\* copy_trade, db.mark_trade_copied after the order was placed; an
\* exception makes copy_trade return False.
Mark(p) ==
    /\ pc[p] = "mark"
    /\ Unheld(p)
    /\ \E ok \in Outcomes :
          /\ Charge(ok)
          /\ processed_trades' = IF ok THEN mark_trade_copied(Head(todo[p]))
                                 ELSE processed_trades
          /\ AfterCopy(p, ok)
          /\ pace' = [pace EXCEPT ![p] = Delayed(pace[p], ok)]
    /\ UNCHANGED <<start_time, symIdx, batch, new_trades, all_trades>>
    /\ UNCHANGED <<monitor_start_time, streamVars>>
    /\ UNCHANGED <<now, history, orders>>
    /\ UNCHANGED <<forwarded, accepted, pendingAtCrash, admitted,
                   readmitted, handled, crashes>>
    /\ UNCHANGED cycleVars
    /\ UNCHANGED <<wsVars, execVars>>
    /\ UNCHANGED given
    /\ UNCHANGED <<posVars, lifeVars, svcVars>>
    /\ UNCHANGED <<admit_log, submit_log, stream_admit_log, stream_submit_log>>
    /\ UNCHANGED clockVars
    /\ UNCHANGED <<sigVars, panelVars>>

(* ------------------------- TradeCopierService ------------------------- *)

\* start(), the loop: after time.sleep(polling_interval) the loop tests
\* self.running; the next _monitoring_cycle begins, or the loop is left
\* and start() returns True.
Sleep(p) ==
    /\ pc[p] = "sleep"
    /\ Unheld(p)
    /\ IF running[p]
       THEN /\ pc' = [pc EXCEPT ![p] = "fetch"]
            /\ symIdx' = [symIdx EXCEPT ![p] = 1]
            /\ polled' = [polled EXCEPT ![p] = {}]
            /\ owed' = [owed EXCEPT ![p] = failedNow[p]]
            /\ failedNow' = [failedNow EXCEPT ![p] = {}]
       ELSE /\ pc' = [pc EXCEPT ![p] = "returned"]
            /\ UNCHANGED <<symIdx, polled, owed, failedNow>>
    /\ UNCHANGED <<start_time, batch, new_trades, all_trades, todo,
                   copied_count, stats>>
    /\ UNCHANGED failedEver
    /\ UNCHANGED <<envVars, dbVars, streamVars>>
    /\ UNCHANGED <<forwarded, accepted, pendingAtCrash, admitted, readmitted,
                   handled, crashes, faults>>
    /\ UNCHANGED <<wsVars, execVars>>
    /\ pace' = [pace EXCEPT ![p] = "rested"]
    /\ given' = [given EXCEPT ![p] = {}]
    /\ UNCHANGED <<posVars, lifeVars, svcVars>>
    /\ UNCHANGED logVars
    /\ UNCHANGED clockVars
    /\ UNCHANGED <<sigVars, panelVars>>

\* TradeCopierService.__init__ up to the first read of the database: the
\* monitor's TradeDatabase is opened and _get_start_time calls
\* get_setting.  With a saved setting the monitor starts from it and the
\* rest of the constructor (running False, the counters zero) touches only
\* the new object; without one _get_start_time goes on to read the clock.
NewService(p) ==
    /\ pc[p] = "off"
    /\ processed_trades' = init_database(processed_trades)
    /\ IF monitor_start_time # <<>>
       THEN /\ start_time' = [start_time EXCEPT ![p] =
                                GetStartTime(monitor_start_time, now)]
            /\ pc' = [pc EXCEPT ![p] = "made"]
       ELSE /\ pc' = [pc EXCEPT ![p] = "clock"]
            /\ UNCHANGED start_time
    /\ UNCHANGED <<monitor_start_time, current_time>>
    /\ symIdx' = [symIdx EXCEPT ![p] = 1]
    /\ stats' = [stats EXCEPT ![p] =
                   [total_trades_found |-> 0, total_trades_copied |-> 0]]
    /\ running' = [running EXCEPT ![p] = FALSE]
    /\ tested' = [tested EXCEPT ![p] = <<>>]
    /\ stats_started' = [stats_started EXCEPT ![p] = FALSE]
    /\ UNCHANGED <<stopped, printed>>
    /\ UNCHANGED <<batch, new_trades, all_trades, todo, copied_count>>
    /\ polled' = [polled EXCEPT ![p] = {}]
    /\ failedNow' = [failedNow EXCEPT ![p] = {}]
    /\ owed' = [owed EXCEPT ![p] = {}]
    /\ failedEver' = [failedEver EXCEPT ![p] = {}]
    /\ pace' = [pace EXCEPT ![p] = "rested"]
    /\ given' = [given EXCEPT ![p] = {}]
    /\ UNCHANGED <<envVars, streamVars, histVars>>
    /\ UNCHANGED <<wsVars, execVars, posVars>>
    /\ UNCHANGED svcVars
    /\ admit_log' = [admit_log EXCEPT ![p] = <<>>]
    /\ submit_log' = [submit_log EXCEPT ![p] = <<>>]
    /\ copy_failed' = [copy_failed EXCEPT ![p] = 0]
    /\ UNCHANGED <<stream_admit_log, stream_submit_log>>

\* main() constructs the service: TradeCopierService().
Construct(p) ==
    /\ NewService(p)
    /\ UNCHANGED <<sigVars, panelVars>>

\* _get_start_time, no setting saved: current_time = int(time.time() * 1000).
CurrentTime(p) ==
    /\ pc[p] = "clock"
    /\ current_time' = [current_time EXCEPT ![p] = now]
    /\ pc' = [pc EXCEPT ![p] = "set"]
    /\ UNCHANGED <<start_time, symIdx, batch, new_trades, all_trades, todo,
                   copied_count, stats>>
    /\ UNCHANGED <<envVars, dbVars, streamVars, histVars>>
    /\ UNCHANGED <<cycleVars, wsVars, execVars, batchVars, posVars, lifeVars>>
    /\ UNCHANGED svcVars
    /\ UNCHANGED logVars
    /\ UNCHANGED <<sigVars, panelVars>>

\* _get_start_time, no setting saved: set_setting stores current_time,
\* whatever the setting holds by now, and the monitor starts from it; the
\* rest of the constructor touches only the new object.
SetSetting(p) ==
    /\ pc[p] = "set"
    /\ monitor_start_time' = set_setting(current_time[p])
    /\ start_time' = [start_time EXCEPT ![p] =
                        GetStartTime(<<>>, current_time[p])]
    /\ current_time' = [current_time EXCEPT ![p] = 0]
    /\ pc' = [pc EXCEPT ![p] = "made"]
    /\ UNCHANGED processed_trades
    /\ UNCHANGED <<symIdx, batch, new_trades, all_trades, todo,
                   copied_count, stats>>
    /\ UNCHANGED <<envVars, streamVars, histVars>>
    /\ UNCHANGED <<cycleVars, wsVars, execVars, batchVars, posVars, lifeVars>>
    /\ UNCHANGED svcVars
    /\ UNCHANGED logVars
    /\ UNCHANGED <<sigVars, panelVars>>

\* A _test_connections that looks at the source account only.
SourceOnly(monitor_ok, copier_ok) == monitor_ok

\* _test_connections, its result: both test_connection calls returned True.
ConnectionsOk(monitor_ok, copier_ok) == monitor_ok /\ copier_ok

\* start(), _test_connections: monitor.test_connection() and then
\* copier.test_connection(), each True or (the exception being caught)
\* False.  After the second, start() goes on when both were True and
\* returns False otherwise.
TestConnection(p) ==
    /\ pc[p] \in {"made", "testing"}
    /\ Unheld(p)
    /\ \E ok \in BOOLEAN :
          /\ tested' = [tested EXCEPT ![p] = Append(@, ok)]
          /\ pc' = [pc EXCEPT ![p] =
                      IF pc[p] = "made" THEN "testing"
                      ELSE IF ConnectionsOk(tested[p][1], ok) THEN "tested"
                      ELSE "failed"]
    /\ UNCHANGED <<running, stats_started, stopped, printed>>
    /\ UNCHANGED <<start_time, symIdx, batch, new_trades, all_trades, todo,
                   copied_count, stats>>
    /\ UNCHANGED <<envVars, dbVars, streamVars, histVars>>
    /\ UNCHANGED <<cycleVars, wsVars, execVars, batchVars, posVars>>
    /\ UNCHANGED svcVars
    /\ UNCHANGED logVars
    /\ UNCHANGED clockVars
    /\ UNCHANGED <<sigVars, panelVars>>

\* start(), after the tests: self.running = True.
SetRunning(p) ==
    /\ pc[p] = "tested"
    /\ Unheld(p)
    /\ running' = [running EXCEPT ![p] = TRUE]
    /\ pc' = [pc EXCEPT ![p] = "stamp"]
    /\ UNCHANGED <<tested, stats_started, stopped, printed>>
    /\ UNCHANGED <<start_time, symIdx, batch, new_trades, all_trades, todo,
                   copied_count, stats>>
    /\ UNCHANGED <<envVars, dbVars, streamVars, histVars>>
    /\ UNCHANGED <<cycleVars, wsVars, execVars, batchVars, posVars>>
    /\ UNCHANGED svcVars
    /\ UNCHANGED logVars
    /\ UNCHANGED clockVars
    /\ UNCHANGED <<sigVars, panelVars>>

\* start(), after running is set: self.stats['start_time'] = datetime.now().
SetStartTime(p) ==
    /\ pc[p] = "stamp"
    /\ Unheld(p)
    /\ stats_started' = [stats_started EXCEPT ![p] = TRUE]
    /\ pc' = [pc EXCEPT ![p] = "while"]
    /\ UNCHANGED <<running, tested, stopped, printed>>
    /\ UNCHANGED <<start_time, symIdx, batch, new_trades, all_trades, todo,
                   copied_count, stats>>
    /\ UNCHANGED <<envVars, dbVars, streamVars, histVars>>
    /\ UNCHANGED <<cycleVars, wsVars, execVars, batchVars, posVars>>
    /\ UNCHANGED svcVars
    /\ UNCHANGED logVars
    /\ UNCHANGED clockVars
    /\ UNCHANGED <<sigVars, panelVars>>

\* start(), the first test of `while self.running`: the first
\* _monitoring_cycle begins, or start() returns True.
EnterLoop(p) ==
    /\ pc[p] = "while"
    /\ Unheld(p)
    /\ pc' = [pc EXCEPT ![p] = IF running[p] THEN "fetch" ELSE "returned"]
    /\ symIdx' = [symIdx EXCEPT ![p] = 1]
    /\ UNCHANGED <<start_time, batch, new_trades, all_trades, todo,
                   copied_count, stats>>
    /\ UNCHANGED <<envVars, dbVars, streamVars, histVars>>
    /\ UNCHANGED <<cycleVars, wsVars, execVars, batchVars, posVars, lifeVars>>
    /\ UNCHANGED svcVars
    /\ UNCHANGED logVars
    /\ UNCHANGED clockVars
    /\ UNCHANGED <<sigVars, panelVars>>

\* stop(), its first statement: self.running = False.
StopRunning(p) ==
    /\ running' = [running EXCEPT ![p] = FALSE]
    /\ stopped' = [stopped EXCEPT ![p] = @ + 1]

\* stop(), its second statement: _print_stats() prints the counters when
\* stats['start_time'] is set.
PrintStats(p) ==
    printed' = [printed EXCEPT ![p] = IF stats_started[p] THEN @ + 1 ELSE @]

\* SIGINT or SIGTERM reaches the process of main(): _signal_handler, which
\* the constructor installed with its last statements, runs on the main
\* thread and calls stop(), here up to self.running = False.  A signal may
\* arrive while an earlier handler, or the stop() of main(), is still
\* inside stop().
SignalStop(p) ==
    /\ pc[p] \notin Unbuilt \cup {"exited"}
    /\ stopped[p] < MaxStops
    /\ StopRunning(p)
    /\ handlers' = [handlers EXCEPT ![p] = @ + 1]
    /\ UNCHANGED <<tested, stats_started, printed>>
    /\ UNCHANGED spc
    /\ UNCHANGED <<envVars, dbVars, pollVars, streamVars, histVars>>
    /\ UNCHANGED <<cycleVars, wsVars, execVars, batchVars, posVars>>
    /\ UNCHANGED svcVars
    /\ UNCHANGED logVars
    /\ UNCHANGED clockVars
    /\ UNCHANGED panelVars

\* _signal_handler, the rest of its stop(): _print_stats(); the handler
\* returns and what it interrupted goes on.
SignalPrint(p) ==
    /\ handlers[p] > 0
    /\ PrintStats(p)
    /\ handlers' = [handlers EXCEPT ![p] = @ - 1]
    /\ UNCHANGED <<running, tested, stats_started, stopped>>
    /\ UNCHANGED spc
    /\ UNCHANGED <<envVars, dbVars, pollVars, streamVars, histVars>>
    /\ UNCHANGED <<cycleVars, wsVars, execVars, batchVars, posVars>>
    /\ UNCHANGED svcVars
    /\ UNCHANGED logVars
    /\ UNCHANGED clockVars
    /\ UNCHANGED panelVars

\* main(), its finally clause once start() has returned: service.stop(),
\* here up to self.running = False.
FinallyStop(p) ==
    /\ pc[p] \in {"failed", "returned"}
    /\ Unheld(p)
    /\ StopRunning(p)
    /\ pc' = [pc EXCEPT ![p] = "print"]
    /\ UNCHANGED <<tested, stats_started, printed>>
    /\ UNCHANGED <<start_time, symIdx, batch, new_trades, all_trades, todo,
                   copied_count, stats>>
    /\ UNCHANGED <<envVars, dbVars, streamVars, histVars>>
    /\ UNCHANGED <<cycleVars, wsVars, execVars, batchVars, posVars>>
    /\ UNCHANGED svcVars
    /\ UNCHANGED logVars
    /\ UNCHANGED clockVars
    /\ UNCHANGED <<sigVars, panelVars>>

\* main(), the rest of that stop(): _print_stats(); main() returns and the
\* process ends.
FinallyPrint(p) ==
    /\ pc[p] = "print"
    /\ Unheld(p)
    /\ PrintStats(p)
    /\ pc' = [pc EXCEPT ![p] = "exited"]
    /\ UNCHANGED <<running, tested, stats_started, stopped>>
    /\ UNCHANGED <<start_time, symIdx, batch, new_trades, all_trades, todo,
                   copied_count, stats>>
    /\ UNCHANGED <<envVars, dbVars, streamVars, histVars>>
    /\ UNCHANGED <<cycleVars, wsVars, execVars, batchVars, posVars>>
    /\ UNCHANGED svcVars
    /\ UNCHANGED logVars
    /\ UNCHANGED clockVars
    /\ UNCHANGED <<sigVars, panelVars>>

\* The trades a poller holds in memory: fetched, and not yet through
\* copy_trades.
InFlight(p) ==
    Range(batch[p]) \cup Range(new_trades[p]) \cup Range(all_trades[p])
        \cup Range(todo[p])

\* The process of a poller is killed: what it held in memory is gone, the
\* database stays.
Crash(p) ==
    /\ pc[p] # "off"
    /\ upsetBudget > 0
    /\ upsetBudget' = upsetBudget - 1
    /\ crashes' = crashes + 1
    /\ pendingAtCrash' = pendingAtCrash \cup (InFlight(p) \ forwarded)
    /\ pc' = [pc EXCEPT ![p] = "off"]
    /\ current_time' = [current_time EXCEPT ![p] = 0]
    /\ start_time' = [start_time EXCEPT ![p] = 0]
    /\ symIdx' = [symIdx EXCEPT ![p] = 1]
    /\ batch' = [batch EXCEPT ![p] = <<>>]
    /\ new_trades' = [new_trades EXCEPT ![p] = <<>>]
    /\ all_trades' = [all_trades EXCEPT ![p] = <<>>]
    /\ todo' = [todo EXCEPT ![p] = <<>>]
    /\ copied_count' = [copied_count EXCEPT ![p] = 0]
    /\ stats' = [stats EXCEPT ![p] =
                   [total_trades_found |-> 0, total_trades_copied |-> 0]]
    /\ UNCHANGED <<now, history, orders>>
    /\ polled' = [polled EXCEPT ![p] = {}]
    /\ failedNow' = [failedNow EXCEPT ![p] = {}]
    /\ owed' = [owed EXCEPT ![p] = {}]
    /\ UNCHANGED failedEver
    /\ UNCHANGED <<dbVars, streamVars>>
    /\ UNCHANGED <<forwarded, accepted, admitted, readmitted, handled, faults>>
    /\ UNCHANGED <<wsVars, execVars>>
    /\ pace' = [pace EXCEPT ![p] = "rested"]
    /\ given' = [given EXCEPT ![p] = {}]
    /\ UNCHANGED posVars
    /\ running' = [running EXCEPT ![p] = FALSE]
    /\ tested' = [tested EXCEPT ![p] = <<>>]
    /\ stats_started' = [stats_started EXCEPT ![p] = FALSE]
    /\ stopped' = [stopped EXCEPT ![p] = 0]
    /\ printed' = [printed EXCEPT ![p] = 0]
    /\ UNCHANGED svcVars
    /\ admit_log' = [admit_log EXCEPT ![p] = <<>>]
    /\ submit_log' = [submit_log EXCEPT ![p] = <<>>]
    /\ copy_failed' = [copy_failed EXCEPT ![p] = 0]
    /\ UNCHANGED <<stream_admit_log, stream_submit_log>>
    /\ handlers' = [handlers EXCEPT ![p] = 0]
    /\ UNCHANGED spc
    /\ UNCHANGED panelVars

(* ----------------------- the user data stream ------------------------ *)

\* The cap on consecutive reconnects.
max_reconnect_attempts == 10

\* The event types, order statuses and execution types a message of the
\* user data stream may carry (fields e, o.X and o.x).
EventTypes == {"ORDER_TRADE_UPDATE", "ACCOUNT_UPDATE", "listenKeyExpired"}
OrderStatuses == {"PARTIALLY_FILLED", "FILLED"}
ExecutionTypes == {"TRADE", "CALCULATED"}

\* A text that json.loads rejects.
Malformed == [json |-> FALSE, e |-> "", X |-> "", x |-> "", i |-> 0]

\* The messages the stream may deliver: a malformed text, or a JSON object
\* with event type e that holds an order status X and an execution type x;
\* an ORDER_TRADE_UPDATE is about an order i (o.i) of the source account.
Messages ==
    {Malformed}
    \cup [json : {TRUE}, e : {"ORDER_TRADE_UPDATE"}, X : OrderStatuses,
          x : ExecutionTypes, i : 1..Len(history)]
    \cup [json : {TRUE}, e : EventTypes \ {"ORDER_TRADE_UPDATE"},
          X : OrderStatuses, x : ExecutionTypes, i : {0}]

\* handle_order_update, trade_info: the symbol (s), side (S), quantity
\* (float(q)) and order id (i) of the order update.
TradeInfo(order_data) ==
    [symbol |-> order_data.symbol,
     side |-> order_data.side,
     quantity |-> float(order_data.qty),
     order_id |-> order_data.id]

(* --------------------------- DatabaseManager -------------------------- *)

\* The positionAmt texts futures_position_information reports, and the
\* numbers they denote, in thousandths of a contract.
AmtTexts  == <<"0.000", "0.500", "-1.000">>
AmtValues == <<0, 500, -1000>>

\* float(pos.get('positionAmt', 0)).
floatAmt(text) == AmtValues[CHOOSE k \in DOMAIN AmtTexts : AmtTexts[k] = text]

\* abs(x).
abs(x) == IF x < 0 THEN 0 - x ELSE x

\* The entries futures_position_information may hold, and the lists it
\* may answer with: at most MaxPositions entries; in hedge mode an
\* instrument is listed once per position side, so an instrument may occur
\* more than once.
PositionEntries == [symbol : Range(symbols), positionAmt : Range(AmtTexts)]
PositionLists ==
    UNION {[1..n -> PositionEntries] : n \in 0..MaxPositions}

\* update_positions, the row inserted for one entry of the list.
PositionRow(account_type, pos) ==
    [account_type |-> account_type,
     symbol |-> pos.symbol,
     side |-> IF floatAmt(pos.positionAmt) > 0 THEN "LONG" ELSE "SHORT",
     size |-> abs(floatAmt(pos.positionAmt))]

\* INSERT OR REPLACE under UNIQUE(account_type, symbol): a row with the
\* same account and instrument is replaced.
InsertOrReplace(table, row) ==
    {r \in table : ~(r.account_type = row.account_type
                     /\ r.symbol = row.symbol)} \cup {row}

\* update_positions, the loop over the list: an entry with a non-zero
\* positionAmt is inserted, the others are passed over.
RECURSIVE InsertPositions(_, _, _)
InsertPositions(table, account_type, ps) ==
    IF ps = <<>> THEN table
    ELSE InsertPositions(
           IF floatAmt(Head(ps).positionAmt) # 0
           THEN InsertOrReplace(table, PositionRow(account_type, Head(ps)))
           ELSE table,
           account_type, Tail(ps))

\* An update_positions that leaves the account's old rows in place and
\* merges the new ones into them.
update_positions_merge(table, account_type, ps) ==
    InsertPositions(table, account_type, ps)

\* DatabaseManager.update_positions: DELETE of the account's rows, then the
\* inserts, then commit.
update_positions(table, account_type, ps) ==
    InsertPositions({r \in table : r.account_type # account_type},
                    account_type, ps)

(* -------------------------- TradeCopyService -------------------------- *)

\* copy_trade, futures_create_order: a MARKET order with the symbol, side
\* and quantity of trade_info.
create_order_params(info) ==
    [symbol |-> info.symbol,
     side |-> info.side,
     type |-> "MARKET",
     quantity |-> info.quantity]

\* handle_new_trade, its admission: an order id found in processed_orders
\* returns at once; another is added to it.
handle_new_trade(f) ==
    /\ IF f \in processed_orders
       THEN UNCHANGED <<processed_orders, hpc, trade_info, admitted, readmitted,
                        stream_admit_log>>
       ELSE /\ processed_orders' = processed_orders \cup {f}
            /\ stream_admit_log' = Append(stream_admit_log, f)
            /\ trade_info' = f
            /\ hpc' = "copy"
            /\ admitted' = admitted \cup {f}
            /\ readmitted' = IF f \in admitted
                             THEN readmitted \cup {f} ELSE readmitted
    /\ UNCHANGED <<stream_up, result, trades>>
    /\ UNCHANGED <<envVars, dbVars, pollVars, cycleVars>>
    /\ UNCHANGED <<forwarded, accepted, pendingAtCrash, handled,
                   crashes, faults>>

\* handle_new_trade is called by the WebSocket thread, whose socket is
\* open, with the filled order f (the stream delivers a fill any number of
\* times).
Deliver(f) ==
    /\ stream_up
    /\ wpc = "open"
    /\ hpc = "idle"
    /\ f \in 1..Len(history)
    /\ handle_new_trade(f)
    /\ UNCHANGED <<wsVars, execVars>>
    /\ UNCHANGED <<batchVars, posVars, lifeVars, svcVars>>
    /\ UNCHANGED <<admit_log, submit_log, stream_submit_log, copy_failed>>
    /\ UNCHANGED clockVars
    /\ UNCHANGED <<sigVars, panelVars>>

\* The reason the venue gives with a rejection (the exception's message)
\* and the text of a transport failure (str of the exception).
RejectionReason == "Margin is insufficient."
TransportReason == "Read timed out."

\* What copy_trade returns before it has been called.
NoResult == [success |-> FALSE, error |-> <<>>]

\* How a call of futures_create_order may end: the order is placed, the
\* venue rejects it (BinanceAPIException), or the request fails on the way
\* (any other exception); the environment raises while its budget lasts.
CopyOutcomes ==
    IF upsetBudget > 0 THEN {"placed", "rejected", "transport"} ELSE {"placed"}

\* copy_trade, its return value: success, or the error text made of a
\* prefix and the exception's message.
CopyResult(out) ==
    CASE out = "placed"    -> [success |-> TRUE, error |-> <<>>]
      [] out = "rejected"  -> [success |-> FALSE,
                               error |-> <<"Binance API Error: ", RejectionReason>>]
      [] out = "transport" -> [success |-> FALSE,
                               error |-> <<"Unexpected error: ", TransportReason>>]

\* copy_trade of the stream service: one call of futures_create_order for
\* a MARKET order on the target account; an exception becomes a result
\* without success.
StreamCopy ==
    /\ hpc = "copy"
    /\ \E out \in CopyOutcomes :
          /\ Charge(out = "placed")
          /\ result' = CopyResult(out)
          /\ cause' = [cause EXCEPT ![trade_info] = out]
          /\ orders' = IF out = "placed"
                       THEN Append(orders,
                              [src |-> trade_info, by |-> "stream",
                               admission_row |-> FALSE,
                               params |-> create_order_params(
                                             TradeInfo(history[trade_info]))])
                       ELSE orders
    /\ attempts' = [attempts EXCEPT ![trade_info] = @ + 1]
    /\ hpc' = "save"
    /\ UNCHANGED <<stream_up, processed_orders, trade_info, trades>>
    /\ UNCHANGED <<now, history, dbVars, pollVars, cycleVars>>
    /\ UNCHANGED <<forwarded, accepted, pendingAtCrash, admitted,
                   readmitted, handled, crashes>>
    /\ UNCHANGED wsVars
    /\ UNCHANGED <<batchVars, posVars, lifeVars, svcVars>>
    /\ stream_submit_log' = Append(stream_submit_log, trade_info)
    /\ UNCHANGED <<admit_log, submit_log, stream_admit_log, copy_failed>>
    /\ UNCHANGED clockVars
    /\ UNCHANGED <<sigVars, panelVars>>

\* DatabaseManager.save_trade: INSERT of one row into trades.
db_save_trade(table, trade_data) == Append(table, trade_data)

\* handle_new_trade, db.save_trade: one row of trades with the outcome; an
\* exception is logged by handle_new_trade and nothing is written.
StreamSave ==
    /\ hpc = "save"
    /\ \E ok \in Outcomes :
          /\ Charge(ok)
          /\ trades' = IF ok
                       THEN db_save_trade(trades,
                              [source_order_id |-> trade_info,
                               status |-> IF result.success THEN "success"
                                          ELSE "failed",
                               error_message |-> result.error])
                       ELSE trades
    /\ handled' = handled \cup {trade_info}
    /\ hpc' = "idle"
    /\ trade_info' = 0
    /\ result' = NoResult
    /\ UNCHANGED <<stream_up, processed_orders>>
    /\ UNCHANGED <<now, history, orders, dbVars, pollVars, cycleVars>>
    /\ UNCHANGED <<forwarded, accepted, pendingAtCrash, admitted,
                   readmitted, crashes>>
    /\ UNCHANGED <<wsVars, execVars>>
    /\ UNCHANGED <<batchVars, posVars, lifeVars, svcVars>>
    /\ UNCHANGED logVars
    /\ UNCHANGED clockVars
    /\ UNCHANGED <<sigVars, panelVars>>

\* main() of the stream service: the process starts and TradeCopyService
\* is constructed, with an empty processed_orders and running False.
SvcConstruct ==
    /\ ~stream_up
    /\ svc \in {"none", "failed", "exited"}
    /\ stream_up' = TRUE
    /\ processed_orders' = {}
    /\ svc' = "made"
    /\ svc_running' = FALSE
    /\ checked' = <<>>
    /\ UNCHANGED <<hpc, trade_info, result, trades>>
    /\ UNCHANGED <<envVars, dbVars, pollVars, histVars, cycleVars>>
    /\ UNCHANGED <<wsVars, execVars, batchVars, posVars, lifeVars>>
    /\ stream_admit_log' = <<>>
    /\ stream_submit_log' = <<>>
    /\ UNCHANGED <<admit_log, submit_log, copy_failed>>
    /\ UNCHANGED clockVars
    /\ UNCHANGED <<sigVars, panelVars>>

\* start(), the connectivity checks: futures_account of the source client,
\* then of the target client, in one try block.  An exception of either
\* makes start() return False, and main() and the process end with it.
SvcCheck ==
    /\ svc \in {"made", "checking"}
    /\ spc = "none"
    /\ \E ok \in BOOLEAN :
          /\ checked' = Append(checked, ok)
          /\ svc' = IF ~ok THEN "failed"
                    ELSE IF svc = "made" THEN "checking" ELSE "checked"
          /\ stream_up' = ok
    /\ UNCHANGED svc_running
    /\ UNCHANGED <<processed_orders, hpc, trade_info, result, trades>>
    /\ UNCHANGED <<envVars, dbVars, pollVars, histVars, cycleVars>>
    /\ UNCHANGED <<wsVars, execVars, batchVars, posVars, lifeVars>>
    /\ UNCHANGED logVars
    /\ UNCHANGED clockVars
    /\ UNCHANGED <<sigVars, panelVars>>

\* start(), after the checks: update_positions() is called for the first
\* pass.
SvcFirstPass ==
    /\ svc = "checked"
    /\ spc = "none"
    /\ ppc = "idle"
    /\ svc' = "pass"
    /\ ppc' = "real"
    /\ UNCHANGED <<positions, lastPass, lastUpdate>>
    /\ UNCHANGED <<svc_running, checked>>
    /\ UNCHANGED <<envVars, dbVars, pollVars, streamVars, histVars, cycleVars>>
    /\ UNCHANGED <<wsVars, execVars, batchVars, lifeVars>>
    /\ UNCHANGED logVars
    /\ UNCHANGED clockVars
    /\ UNCHANGED <<sigVars, panelVars>>

\* start(), after the first pass: update_positions is scheduled and the
\* WebSocket thread is started with start_user_data_stream as its target;
\* start() has not set running yet.
WsStart ==
    /\ svc = "pass"
    /\ spc = "none"
    /\ ppc = "idle"
    /\ wpc = "none"
    /\ wpc' = "connect"
    /\ UNCHANGED <<ws_running, reconnect_attempts, delays, key_fresh,
                   pendingFault, last_msg, last_called,
                   ws_stopped>>
    /\ UNCHANGED svcVars
    /\ UNCHANGED <<envVars, dbVars, pollVars, streamVars, histVars, cycleVars>>
    /\ UNCHANGED <<execVars, batchVars, posVars, lifeVars>>
    /\ UNCHANGED logVars
    /\ UNCHANGED clockVars
    /\ UNCHANGED <<sigVars, panelVars>>

\* start(), after the thread is started: running becomes True and the main
\* loop is entered.
SvcRun ==
    /\ svc = "pass"
    /\ spc = "none"
    /\ ppc = "idle"
    /\ wpc # "none"
    /\ svc' = "loop"
    /\ svc_running' = TRUE
    /\ UNCHANGED checked
    /\ UNCHANGED <<envVars, dbVars, pollVars, streamVars, histVars, cycleVars>>
    /\ UNCHANGED <<wsVars, execVars, batchVars, posVars, lifeVars>>
    /\ UNCHANGED logVars
    /\ UNCHANGED clockVars
    /\ UNCHANGED <<sigVars, panelVars>>

\* The main loop, schedule.run_pending(): the 30 seconds of the schedule
\* are over and update_positions is called for a pass.
RunPending ==
    /\ stream_up
    /\ svc = "loop"
    /\ spc = "none"
    /\ ppc = "idle"
    /\ ppc' = "real"
    /\ UNCHANGED <<positions, lastPass, lastUpdate>>
    /\ UNCHANGED <<envVars, dbVars, pollVars, streamVars, histVars, cycleVars>>
    /\ UNCHANGED <<wsVars, execVars, batchVars, lifeVars, svcVars>>
    /\ UNCHANGED logVars
    /\ UNCHANGED clockVars
    /\ UNCHANGED <<sigVars, panelVars>>

\* SIGINT or SIGTERM reaches the stream service's process: signal_handler,
\* which the constructor installed, runs on the main thread and calls
\* stop(), here up to self.running = False.  A signal that arrives while a
\* handler runs starts a handler of its own, and the process ends in it.
Signal ==
    /\ stream_up
    /\ svc_running' = FALSE
    /\ spc' = "stop"
    /\ UNCHANGED <<svc, checked>>
    /\ UNCHANGED handlers
    /\ UNCHANGED <<envVars, dbVars, pollVars, streamVars, histVars, cycleVars>>
    /\ UNCHANGED <<wsVars, execVars, batchVars, posVars, lifeVars>>
    /\ UNCHANGED logVars
    /\ UNCHANGED clockVars
    /\ UNCHANGED panelVars

\* signal_handler, after stop() has returned: sys.exit(0) ends the main
\* thread and the process; the WebSocket thread, a daemon, ends where it
\* stands, and handle_new_trade, which runs on it, with it.
SysExit ==
    /\ spc = "exit"
    /\ spc' = "none"
    /\ stream_up' = FALSE
    /\ svc' = "exited"
    /\ svc_running' = FALSE
    /\ UNCHANGED checked
    /\ processed_orders' = {}
    /\ hpc' = "idle"
    /\ trade_info' = 0
    /\ result' = NoResult
    /\ UNCHANGED trades
    /\ wpc' = "none"
    /\ ws_running' = FALSE
    /\ reconnect_attempts' = 0
    /\ delays' = <<>>
    /\ key_fresh' = FALSE
    /\ pendingFault' = "none"
    /\ last_msg' = <<>>
    /\ last_called' = FALSE
    /\ ws_stopped' = FALSE
    /\ ppc' = "idle"
    /\ UNCHANGED <<positions, lastPass, lastUpdate>>
    /\ UNCHANGED handlers
    /\ UNCHANGED <<envVars, dbVars, pollVars, histVars, cycleVars>>
    /\ UNCHANGED <<execVars, batchVars, lifeVars>>
    /\ stream_admit_log' = <<>>
    /\ stream_submit_log' = <<>>
    /\ UNCHANGED <<admit_log, submit_log, copy_failed>>
    /\ UNCHANGED clockVars
    /\ UNCHANGED panelVars

\* What a pass did for an account.
PassResult(ok) == IF ok THEN "replaced" ELSE "failed"

\* TradeCopyService.update_positions, one account of the pass:
\* futures_position_information of the account, then
\* DatabaseManager.update_positions with its answer.  The pass handles
\* "real", then "testnet", inside one try block: an exception of either
\* call (the table is then left as it was, nothing being committed) is
\* logged and ends the pass.  The exchange answers with one of lists.
PositionPass(a, lists) ==
    /\ ppc = a
    /\ spc = "none"
    /\ \E ps \in lists, ok \in Outcomes :
          /\ Charge(ok)
          /\ positions' = IF ok THEN update_positions(positions, a, ps)
                          ELSE positions
          /\ lastUpdate' = IF ok THEN <<[account_type |-> a, list |-> ps]>>
                           ELSE lastUpdate
          /\ lastPass' = IF a = "real"
                         THEN [b \in Accounts |->
                                 IF b = a THEN PassResult(ok) ELSE "skipped"]
                         ELSE [lastPass EXCEPT ![a] = PassResult(ok)]
          /\ ppc' = IF a = "real" /\ ok THEN "testnet" ELSE "idle"
    /\ UNCHANGED <<now, history, orders>>
    /\ UNCHANGED <<dbVars, pollVars, streamVars>>
    /\ UNCHANGED <<forwarded, accepted, pendingAtCrash, admitted,
                   readmitted, handled, crashes>>
    /\ UNCHANGED <<cycleVars, wsVars, execVars, batchVars>>
    /\ UNCHANGED <<lifeVars, svcVars>>
    /\ UNCHANGED logVars
    /\ UNCHANGED clockVars
    /\ UNCHANGED <<sigVars, panelVars>>

\* One account of a position pass, on accounts that may hold any of the
\* positions above.
SyncPositions(a) ==
    /\ stream_up
    /\ PositionPass(a, PositionLists)

\* One account of a position pass, on accounts that hold no position: the
\* exchange answers with the empty list.
SyncFlat(a) ==
    /\ stream_up
    /\ PositionPass(a, {<<>>})

\* The stream service's process is killed: processed_orders is gone, the
\* table trades stays.
StreamCrash ==
    /\ stream_up
    /\ upsetBudget > 0
    /\ upsetBudget' = upsetBudget - 1
    /\ crashes' = crashes + 1
    /\ stream_up' = FALSE
    /\ processed_orders' = {}
    /\ hpc' = "idle"
    /\ trade_info' = 0
    /\ result' = NoResult
    /\ UNCHANGED trades
    /\ wpc' = "none"
    /\ ws_running' = FALSE
    /\ reconnect_attempts' = 0
    /\ delays' = <<>>
    /\ key_fresh' = FALSE
    /\ pendingFault' = "none"
    /\ last_msg' = <<>>
    /\ last_called' = FALSE
    /\ ws_stopped' = FALSE
    /\ UNCHANGED <<now, history, orders, dbVars, pollVars, cycleVars>>
    /\ UNCHANGED <<forwarded, accepted, pendingAtCrash, admitted,
                   readmitted, handled, faults>>
    /\ UNCHANGED execVars
    /\ UNCHANGED batchVars
    /\ ppc' = "idle"
    /\ UNCHANGED <<positions, lastPass, lastUpdate>>
    /\ UNCHANGED lifeVars
    /\ svc' = "none"
    /\ svc_running' = FALSE
    /\ checked' = <<>>
    /\ stream_admit_log' = <<>>
    /\ stream_submit_log' = <<>>
    /\ UNCHANGED <<admit_log, submit_log, copy_failed>>
    /\ UNCHANGED clockVars
    /\ spc' = "none"
    /\ UNCHANGED handlers
    /\ UNCHANGED panelVars

(* ---------------------- BinanceWebSocketManager ----------------------- *)

\* A handle_order_update that calls back on every trade execution, also of
\* an order that is not completely filled.
CallsBackOnAnyTrade(m) ==
    /\ m.json
    /\ m.e = "ORDER_TRADE_UPDATE"
    /\ m.x = "TRADE"

\* on_message and handle_order_update: the callback is called for a
\* decoded ORDER_TRADE_UPDATE whose order is FILLED by a TRADE execution.
CallsBack(m) ==
    /\ m.json
    /\ m.e = "ORDER_TRADE_UPDATE"
    /\ m.X = "FILLED" /\ m.x = "TRADE"

\* A delay that shrinks after the first of consecutive reconnects.
ShrinkingDelay(attempt) == IF attempt > 1 THEN 1 ELSE 5

\* on_close: the seconds slept before reconnect number attempt.
ReconnectDelay(attempt) == 5

\* start_user_data_stream up to run_forever: a listen key is asked for;
\* without one the function returns False, and the thread with it.
StartUserDataStream ==
    /\ wpc = "connect"
    /\ \E ok \in BOOLEAN :
          IF ok
          THEN /\ key_fresh' = TRUE
               /\ ws_running' = TRUE
               /\ wpc' = "connecting"
          ELSE /\ wpc' = "ended"
               /\ UNCHANGED <<key_fresh, ws_running>>
    /\ pendingFault' = "none"
    /\ UNCHANGED <<reconnect_attempts, delays, last_msg, last_called,
                   ws_stopped>>
    /\ UNCHANGED <<envVars, dbVars, pollVars, streamVars, histVars, cycleVars,
                   execVars>>
    /\ UNCHANGED <<batchVars, posVars, lifeVars, svcVars>>
    /\ UNCHANGED logVars
    /\ UNCHANGED clockVars
    /\ UNCHANGED <<sigVars, panelVars>>

\* An on_open that leaves reconnect_attempts as it is.
on_open_keep(n) == n

\* on_open: self.reconnect_attempts = 0.
on_open(n) == 0

\* run_forever opens the socket: on_open resets reconnect_attempts; a
\* socket that cannot be opened is reported to on_error and then on_close.
Connect ==
    /\ wpc = "connecting"
    /\ \E ok \in BOOLEAN :
          IF ok
          THEN /\ wpc' = "open"
               /\ reconnect_attempts' = on_open(reconnect_attempts)
               /\ delays' = <<>>
               /\ UNCHANGED pendingFault
          ELSE /\ wpc' = "closing"
               /\ pendingFault' = "error"
               /\ UNCHANGED <<reconnect_attempts, delays>>
    /\ UNCHANGED <<ws_running, key_fresh, last_msg, last_called,
                   ws_stopped>>
    /\ UNCHANGED <<envVars, dbVars, pollVars, streamVars, histVars, cycleVars,
                   execVars>>
    /\ UNCHANGED <<batchVars, posVars, lifeVars, svcVars>>
    /\ UNCHANGED logVars
    /\ UNCHANGED clockVars
    /\ UNCHANGED <<sigVars, panelVars>>

\* on_message: the text is decoded and dispatched on its event type; an
\* exception is logged.  The callback is handle_new_trade.
OnMessage(m) ==
    /\ stream_up
    /\ wpc = "open"
    /\ hpc = "idle"
    /\ last_msg' = <<m>>
    /\ last_called' = CallsBack(m)
    /\ UNCHANGED ws_stopped
    /\ pendingFault' = IF m.json THEN pendingFault ELSE "decode"
    /\ IF CallsBack(m)
       THEN handle_new_trade(m.i)
       ELSE UNCHANGED <<envVars, dbVars, pollVars, streamVars, histVars,
                        cycleVars, stream_admit_log>>
    /\ UNCHANGED <<wpc, ws_running, reconnect_attempts, delays, key_fresh>>
    /\ UNCHANGED execVars
    /\ UNCHANGED <<batchVars, posVars, lifeVars, svcVars>>
    /\ UNCHANGED <<admit_log, submit_log, stream_submit_log, copy_failed>>
    /\ UNCHANGED clockVars
    /\ UNCHANGED <<sigVars, panelVars>>

\* The open socket fails (on_error, which logs, then on_close) or is
\* closed by the server (on_close).
Drop(kind) ==
    /\ wpc = "open"
    /\ hpc = "idle"
    /\ wpc' = "closing"
    /\ pendingFault' = kind
    /\ UNCHANGED <<ws_running, reconnect_attempts, delays, key_fresh,
                   last_msg, last_called,
                   ws_stopped>>
    /\ UNCHANGED <<envVars, dbVars, pollVars, streamVars, histVars, cycleVars,
                   execVars>>
    /\ UNCHANGED <<batchVars, posVars, lifeVars, svcVars>>
    /\ UNCHANGED logVars
    /\ UNCHANGED clockVars
    /\ UNCHANGED <<sigVars, panelVars>>

\* on_close, called by run_forever on the WebSocket thread once the socket
\* is closed and the handler in progress has returned: while running and
\* under the cap, count the attempt, sleep and call start_user_data_stream
\* again; otherwise return, and the thread with it.
OnClose ==
    /\ wpc = "closing"
    /\ hpc = "idle"
    /\ IF ws_running /\ reconnect_attempts < max_reconnect_attempts
       THEN /\ reconnect_attempts' = reconnect_attempts + 1
            /\ delays' = Append(delays, ReconnectDelay(reconnect_attempts + 1))
            /\ wpc' = "connect"
       ELSE /\ wpc' = "ended"
            /\ UNCHANGED <<reconnect_attempts, delays>>
    /\ UNCHANGED <<ws_running, key_fresh, pendingFault, last_msg, last_called,
                   ws_stopped>>
    /\ UNCHANGED <<envVars, dbVars, pollVars, streamVars, histVars, cycleVars,
                   execVars>>
    /\ UNCHANGED <<batchVars, posVars, lifeVars, svcVars>>
    /\ UNCHANGED logVars
    /\ UNCHANGED clockVars
    /\ UNCHANGED <<sigVars, panelVars>>

\* BinanceWebSocketManager.stop(), which TradeCopyService.stop() calls
\* after it has set its own flag: self.running = False.
WsStop ==
    /\ spc = "stop"
    /\ spc' = "close"
    /\ ws_running' = FALSE
    /\ ws_stopped' = TRUE
    /\ UNCHANGED <<wpc, reconnect_attempts, delays, key_fresh, pendingFault,
                   last_msg, last_called>>
    /\ UNCHANGED handlers
    /\ UNCHANGED <<envVars, dbVars, pollVars, streamVars, histVars, cycleVars,
                   execVars>>
    /\ UNCHANGED <<batchVars, posVars, lifeVars, svcVars, logVars>>
    /\ UNCHANGED clockVars
    /\ UNCHANGED panelVars

\* BinanceWebSocketManager.stop(), `if self.ws: self.ws.close()`, and the
\* return of TradeCopyService.stop().  An open socket is closed, which
\* run_forever reports to on_close on the WebSocket thread; a socket that
\* run_forever has not opened yet is closed before it opens or opens all
\* the same; where there is no socket, or a closed one, nothing happens.
WsClose ==
    /\ spc = "close"
    /\ spc' = "exit"
    /\ \E closed \in BOOLEAN :
          wpc' = IF wpc = "open" \/ (wpc = "connecting" /\ closed)
                 THEN "closing" ELSE wpc
    /\ UNCHANGED <<ws_running, ws_stopped, reconnect_attempts, delays,
                   key_fresh, pendingFault, last_msg, last_called>>
    /\ UNCHANGED handlers
    /\ UNCHANGED <<envVars, dbVars, pollVars, streamVars, histVars, cycleVars,
                   execVars>>
    /\ UNCHANGED <<batchVars, posVars, lifeVars, svcVars, logVars>>
    /\ UNCHANGED clockVars
    /\ UNCHANGED panelVars

\* TradeCopyService.start, the main loop: the scheduled jobs run and time
\* passes; no job asks for a listen key.
MainLoop ==
    /\ stream_up
    /\ svc = "loop"
    /\ spc = "none"
    /\ key_fresh' = FALSE
    /\ UNCHANGED <<wpc, ws_running, reconnect_attempts, delays,
                   pendingFault, last_msg, last_called,
                   ws_stopped>>
    /\ UNCHANGED <<envVars, dbVars, pollVars, streamVars, histVars, cycleVars,
                   execVars>>
    /\ UNCHANGED <<batchVars, posVars, lifeVars, svcVars>>
    /\ UNCHANGED logVars
    /\ UNCHANGED clockVars
    /\ UNCHANGED <<sigVars, panelVars>>

(* --------------------------- specifications --------------------------- *)

\* Nothing runs yet: empty databases, no fill on the source account.
Quiet ==
    /\ now = 0
    /\ history = <<>>
    /\ orders = <<>>
    /\ processed_trades = [t \in Fills |-> "none"]
    /\ monitor_start_time = <<>>
    /\ pc = [p \in Pollers |-> "off"]
    /\ start_time = [p \in Pollers |-> 0]
    /\ symIdx = [p \in Pollers |-> 1]
    /\ current_time = [p \in Pollers |-> 0]
    /\ batch = [p \in Pollers |-> <<>>]
    /\ new_trades = [p \in Pollers |-> <<>>]
    /\ all_trades = [p \in Pollers |-> <<>>]
    /\ todo = [p \in Pollers |-> <<>>]
    /\ copied_count = [p \in Pollers |-> 0]
    /\ stats = [p \in Pollers |->
                  [total_trades_found |-> 0, total_trades_copied |-> 0]]
    /\ stream_up = FALSE
    /\ processed_orders = {}
    /\ hpc = "idle"
    /\ trade_info = 0
    /\ result = [success |-> FALSE, error |-> <<>>]
    /\ trades = <<>>
    /\ forwarded = {}
    /\ accepted = [p \in Pollers |-> {}]
    /\ pendingAtCrash = {}
    /\ admitted = {}
    /\ readmitted = {}
    /\ handled = {}
    /\ crashes = 0
    /\ faults = 0
    /\ polled = [p \in Pollers |-> {}]
    /\ failedNow = [p \in Pollers |-> {}]
    /\ owed = [p \in Pollers |-> {}]
    /\ failedEver = [p \in Pollers |-> {}]
    /\ wpc = "none"
    /\ ws_running = FALSE
    /\ reconnect_attempts = 0
    /\ delays = <<>>
    /\ key_fresh = FALSE
    /\ pendingFault = "none"
    /\ last_msg = <<>>
    /\ last_called = FALSE
    /\ ws_stopped = FALSE
    /\ attempts = [f \in Fills |-> 0]
    /\ cause = [f \in Fills |-> "none"]
    /\ pace = [p \in Pollers |-> "rested"]
    /\ given = [p \in Pollers |-> {}]
    /\ positions = {}
    /\ ppc = "idle"
    /\ lastPass = [a \in Accounts |-> "none"]
    /\ lastUpdate = <<>>
    /\ running = [p \in Pollers |-> FALSE]
    /\ tested = [p \in Pollers |-> <<>>]
    /\ stats_started = [p \in Pollers |-> FALSE]
    /\ stopped = [p \in Pollers |-> 0]
    /\ printed = [p \in Pollers |-> 0]
    /\ svc = "none"
    /\ svc_running = FALSE
    /\ checked = <<>>
    /\ admit_log = [p \in Pollers |-> <<>>]
    /\ submit_log = [p \in Pollers |-> <<>>]
    /\ stream_admit_log = <<>>
    /\ stream_submit_log = <<>>
    /\ copy_failed = [p \in Pollers |-> 0]
    /\ handlers = [p \in Pollers |-> 0]
    /\ spc = "none"
    /\ script = [s \in Sessions |-> "idle"]
    /\ service = [s \in Sessions |-> 0]
    /\ service_running = [s \in Sessions |-> FALSE]
    /\ local = [s \in Sessions |-> 0]
    /\ probe_time = [s \in Sessions |-> 0]
    /\ notice = [s \in Sessions |-> "none"]

\* An environment that raises exceptions and kills processes.
Init ==
    /\ Quiet
    /\ upsetBudget = MaxUpsets

\* An environment that does neither.
InitCalm ==
    /\ Quiet
    /\ upsetBudget = 0

\* The steps of a polling service from its construction to its loop.
StartUp(p) ==
    \/ Construct(p)
    \/ CurrentTime(p)
    \/ SetSetting(p)
    \/ TestConnection(p)
    \/ SetRunning(p)
    \/ SetStartTime(p)
    \/ EnterLoop(p)

\* The steps of start() of the stream service up to its main loop, on
\* accounts that hold no position.
SvcStart ==
    \/ SvcCheck
    \/ SvcFirstPass
    \/ \E a \in Accounts : SyncFlat(a)
    \/ WsStart
    \/ SvcRun

\* The steps of the stream service from start() to the open socket of its
\* WebSocket thread; a connection that is lost is not made again.
StreamStartUp ==
    \/ SvcStart
    \/ StartUserDataStream
    \/ Connect

\* One step of a poller's thread.
PollStep(p) ==
    \/ StartUp(p)
    \/ Fetch(p)
    \/ Check(p)
    \/ Save(p)
    \/ Order(p)
    \/ Mark(p)
    \/ Sleep(p)

\* One step of the stream service.
StreamStep ==
    \/ SvcConstruct
    \/ StreamStartUp
    \/ \E f \in Fills : Deliver(f)
    \/ StreamCopy
    \/ StreamSave

\* The polling service alone, with exceptions and kills.
NextPoll ==
    \/ SourceFill
    \/ PollStep(1)
    \/ Crash(1)

SpecPoll == Init /\ [][NextPoll]_vars

\* The stream service alone, with exceptions and kills.
NextStream ==
    \/ SourceFill
    \/ StreamStep
    \/ StreamCrash

SpecStream == Init /\ [][NextStream]_vars

\* Two pollers over the same database, in a calm environment.
NextConc ==
    \/ SourceFill
    \/ \E p \in Pollers : PollStep(p)

SpecConc == InitCalm /\ [][NextConc]_vars

\* The polling service alone in a calm environment, its thread always
\* taking its next step (a running thread is not starved).
NextPollCalm ==
    \/ SourceFill
    \/ PollStep(1)

SpecPollLive ==
    InitCalm /\ [][NextPollCalm]_vars /\ WF_vars(PollStep(1))

\* The steps the WebSocket thread takes by itself.
WsThread ==
    \/ StartUserDataStream
    \/ Connect
    \/ OnClose

\* What the stream brings: messages, socket errors and closes.
WsEvent ==
    \/ \E m \in Messages : OnMessage(m)
    \/ \E kind \in {"error", "close"} : Drop(kind)

\* The stream service with its WebSocket client on a connection that,
\* once open, stays open; no process killed and no call of the target
\* account failing.
NextWs ==
    \/ SourceFill
    \/ SvcConstruct
    \/ StreamStartUp
    \/ \E m \in Messages : OnMessage(m)
    \/ StreamCopy
    \/ StreamSave

SpecWs == InitCalm /\ [][NextWs]_vars

\* The WebSocket client on an account without fills, its thread and the
\* main loop always taking their next step.
NextWsLive ==
    \/ SvcConstruct
    \/ SvcStart
    \/ WsThread
    \/ WsEvent
    \/ MainLoop

SpecWsLive ==
    InitCalm /\ [][NextWsLive]_vars /\ WF_vars(WsThread) /\ WF_vars(MainLoop)

\* The process of one of the two services starts, each a program of its
\* own: the polling service, or the stream service.
StartPoller == svc = "none" /\ Construct(1)
StartStream == pc[1] = "off" /\ SvcConstruct

\* One of the two services from its construction on, in a calm
\* environment: the polling service as main() runs it, with signals at any
\* moment and the stop() of main() at its end, the stream service from the
\* start of its process to its main loop.
NextLife ==
    \/ SourceFill
    \/ StartPoller
    \/ CurrentTime(1)
    \/ SetSetting(1)
    \/ TestConnection(1)
    \/ SetRunning(1)
    \/ SetStartTime(1)
    \/ EnterLoop(1)
    \/ Fetch(1)
    \/ Check(1)
    \/ Save(1)
    \/ Order(1)
    \/ Mark(1)
    \/ Sleep(1)
    \/ SignalStop(1)
    \/ SignalPrint(1)
    \/ FinallyStop(1)
    \/ FinallyPrint(1)
    \/ StartStream
    \/ SvcCheck
    \/ SvcFirstPass
    \/ \E a \in Accounts : SyncPositions(a)
    \/ WsStart
    \/ SvcRun

SpecLife == InitCalm /\ [][NextLife]_vars

\* The first start of the stream service's process.
FirstBoot == svc = "none" /\ SvcConstruct

\* The stream service in a calm environment, started once and stopped by
\* a signal at any moment.
NextStop ==
    \/ SourceFill
    \/ FirstBoot
    \/ StreamStartUp
    \/ \E f \in Fills : Deliver(f)
    \/ StreamCopy
    \/ StreamSave
    \/ Signal
    \/ WsStop
    \/ WsClose
    \/ SysExit

SpecStop == InitCalm /\ [][NextStop]_vars

\* The start of the stream service where no polling service runs or has
\* run.
OnlyStream == pc[1] = "off" /\ monitor_start_time = <<>> /\ SvcConstruct

\* One of the two services, its worker going through admissions and
\* submissions, with exceptions; the polling service may be killed and
\* started again.
NextWorker ==
    \/ SourceFill
    \/ StartPoller
    \/ CurrentTime(1)
    \/ SetSetting(1)
    \/ TestConnection(1)
    \/ SetRunning(1)
    \/ SetStartTime(1)
    \/ EnterLoop(1)
    \/ Fetch(1)
    \/ Check(1)
    \/ Save(1)
    \/ Order(1)
    \/ Mark(1)
    \/ Sleep(1)
    \/ Crash(1)
    \/ OnlyStream
    \/ StreamStartUp
    \/ \E f \in Fills : Deliver(f)
    \/ StreamCopy
    \/ StreamSave

SpecWorker == Init /\ [][NextWorker]_vars

\* The polling service in a calm environment, on an exchange that answers
\* the history query with the page in any order.
NextPage ==
    \/ SourceFill
    \/ StartUp(1)
    \/ FetchShuffled(1)
    \/ Check(1)
    \/ Save(1)
    \/ Order(1)
    \/ Mark(1)
    \/ Sleep(1)

SpecPage == InitCalm /\ [][NextPage]_vars

\* The WebSocket client on an account without fills, in a stream service
\* that a signal stops at any moment.
NextWsStop ==
    \/ SvcConstruct
    \/ SvcStart
    \/ WsThread
    \/ WsEvent
    \/ Signal
    \/ WsStop
    \/ WsClose
    \/ SysExit

SpecWsStop == InitCalm /\ [][NextWsStop]_vars

\* The thread that start_background makes for service p has been started.
Launched(p) ==
    \A s \in Sessions : local[s] = p => script[s] \notin {"ctor", "launch"}

\* start() on the thread of start_background: the first step of the
\* thread.
ThreadTest(p) ==
    /\ Launched(p)
    /\ TestConnection(p)

\* The control panel (streamlit_app.py), its start button, drawn in a
\* session whose service_running is False: StreamlitTradeCopierService()
\* is called, which installs no signal handler.  A constructor that raises
\* before _get_start_time writes (BinanceTradeMonitor() without the real
\* account's credentials, or, a setting being saved, BinanceTradeCopier()
\* without the test account's) has changed nothing and the except branch
\* reports the error.
PanelStart(s) ==
    /\ script[s] = "idle"
    /\ ~service_running[s]
    /\ \E p \in Pollers, ok \in BOOLEAN :
          /\ pc[p] = "off"
          /\ \A q \in Pollers : q < p => pc[q] # "off"
          /\ IF ok
             THEN /\ NewService(p)
                  /\ script' = [script EXCEPT ![s] = "ctor"]
                  /\ local' = [local EXCEPT ![s] = p]
                  /\ UNCHANGED notice
             ELSE /\ notice' = [notice EXCEPT ![s] = "error"]
                  /\ UNCHANGED <<script, local>>
                  /\ UNCHANGED <<envVars, dbVars, pollVars, streamVars,
                                 histVars, cycleVars, wsVars, execVars,
                                 batchVars, posVars, lifeVars, svcVars,
                                 logVars, clockVars>>
    /\ UNCHANGED <<service, service_running, probe_time>>
    /\ UNCHANGED sigVars

\* The start button, the constructor with no setting saved: set_setting
\* stores current_time and BinanceTradeMonitor() returns; then
\* BinanceTradeCopier() raises for want of the test account's credentials,
\* no service comes to be and the except branch reports the error.
PanelStartError(s) ==
    /\ script[s] = "ctor"
    /\ pc[local[s]] = "set"
    /\ monitor_start_time' = set_setting(current_time[local[s]])
    /\ current_time' = [current_time EXCEPT ![local[s]] = 0]
    /\ pc' = [pc EXCEPT ![local[s]] = "off"]
    /\ notice' = [notice EXCEPT ![s] = "error"]
    /\ local' = [local EXCEPT ![s] = 0]
    /\ script' = [script EXCEPT ![s] = "idle"]
    /\ UNCHANGED processed_trades
    /\ UNCHANGED <<start_time, symIdx, batch, new_trades, all_trades, todo,
                   copied_count, stats>>
    /\ UNCHANGED <<service, service_running, probe_time>>
    /\ UNCHANGED <<envVars, streamVars, histVars>>
    /\ UNCHANGED <<cycleVars, wsVars, execVars, batchVars, posVars>>
    /\ UNCHANGED <<lifeVars, svcVars, logVars, sigVars>>

\* The start button, the constructor having returned:
\* st.session_state.service = service.
PanelKeep(s) ==
    /\ script[s] = "ctor"
    /\ pc[local[s]] = "made"
    /\ service' = [service EXCEPT ![s] = local[s]]
    /\ script' = [script EXCEPT ![s] = "launch"]
    /\ UNCHANGED <<service_running, local, probe_time, notice>>
    /\ UNCHANGED lifeVars
    /\ UNCHANGED <<envVars, dbVars, pollVars, streamVars, histVars>>
    /\ UNCHANGED <<cycleVars, wsVars, execVars, batchVars, posVars>>
    /\ UNCHANGED <<svcVars, logVars, clockVars, sigVars>>

\* The start button, service.start_background(): a daemon thread is made
\* for start() and started.
PanelLaunch(s) ==
    /\ script[s] = "launch"
    /\ script' = [script EXCEPT ![s] = "mark"]
    /\ UNCHANGED <<service, service_running, local, probe_time, notice>>
    /\ UNCHANGED lifeVars
    /\ UNCHANGED <<envVars, dbVars, pollVars, streamVars, histVars>>
    /\ UNCHANGED <<cycleVars, wsVars, execVars, batchVars, posVars>>
    /\ UNCHANGED <<svcVars, logVars, clockVars, sigVars>>

\* The start button, its last statements:
\* st.session_state.service_running = True, the success message and the
\* rerun of the script.
PanelMark(s) ==
    /\ script[s] = "mark"
    /\ service_running' = [service_running EXCEPT ![s] = TRUE]
    /\ notice' = [notice EXCEPT ![s] = "started"]
    /\ local' = [local EXCEPT ![s] = 0]
    /\ script' = [script EXCEPT ![s] = "idle"]
    /\ UNCHANGED <<service, probe_time>>
    /\ UNCHANGED lifeVars
    /\ UNCHANGED <<envVars, dbVars, pollVars, streamVars, histVars>>
    /\ UNCHANGED <<cycleVars, wsVars, execVars, batchVars, posVars>>
    /\ UNCHANGED <<svcVars, logVars, clockVars, sigVars>>

\* The control panel, its stop button, drawn in a session whose
\* service_running is True: stop() is called on the service the session
\* holds, here up to self.running = False, on the script's thread.
PanelStop(s) ==
    /\ script[s] = "idle"
    /\ service_running[s]
    /\ IF service[s] # 0
       THEN /\ StopRunning(service[s])
            /\ script' = [script EXCEPT ![s] = "print"]
       ELSE /\ UNCHANGED <<running, stopped>>
            /\ script' = [script EXCEPT ![s] = "clear"]
    /\ UNCHANGED <<tested, stats_started, printed>>
    /\ UNCHANGED <<service, service_running, local, probe_time, notice>>
    /\ UNCHANGED <<envVars, dbVars, pollVars, streamVars, histVars>>
    /\ UNCHANGED <<cycleVars, wsVars, execVars, batchVars, posVars>>
    /\ UNCHANGED <<svcVars, logVars, clockVars, sigVars>>

\* The stop button, the rest of stop(): _print_stats().
PanelPrint(s) ==
    /\ script[s] = "print"
    /\ PrintStats(service[s])
    /\ script' = [script EXCEPT ![s] = "clear"]
    /\ UNCHANGED <<running, tested, stats_started, stopped>>
    /\ UNCHANGED <<service, service_running, local, probe_time, notice>>
    /\ UNCHANGED <<envVars, dbVars, pollVars, streamVars, histVars>>
    /\ UNCHANGED <<cycleVars, wsVars, execVars, batchVars, posVars>>
    /\ UNCHANGED <<svcVars, logVars, clockVars, sigVars>>

\* The stop button: st.session_state.service_running = False.
PanelClear(s) ==
    /\ script[s] = "clear"
    /\ service_running' = [service_running EXCEPT ![s] = FALSE]
    /\ script' = [script EXCEPT ![s] = "drop"]
    /\ UNCHANGED <<service, local, probe_time, notice>>
    /\ UNCHANGED lifeVars
    /\ UNCHANGED <<envVars, dbVars, pollVars, streamVars, histVars>>
    /\ UNCHANGED <<cycleVars, wsVars, execVars, batchVars, posVars>>
    /\ UNCHANGED <<svcVars, logVars, clockVars, sigVars>>

\* The stop button: st.session_state.service = None and the rerun of the
\* script.  Nothing joins the thread of the service.
PanelDrop(s) ==
    /\ script[s] = "drop"
    /\ service' = [service EXCEPT ![s] = 0]
    /\ script' = [script EXCEPT ![s] = "idle"]
    /\ UNCHANGED <<service_running, local, probe_time, notice>>
    /\ UNCHANGED lifeVars
    /\ UNCHANGED <<envVars, dbVars, pollVars, streamVars, histVars>>
    /\ UNCHANGED <<cycleVars, wsVars, execVars, batchVars, posVars>>
    /\ UNCHANGED <<svcVars, logVars, clockVars, sigVars>>

\* The control panel, its connection test button: BinanceTradeMonitor() is
\* constructed, whose _get_start_time calls get_setting; with a saved
\* setting the two test_connection calls follow, which change nothing,
\* without one _get_start_time goes on to read the clock.
PanelTest(s) ==
    /\ script[s] = "idle"
    /\ processed_trades' = init_database(processed_trades)
    /\ script' = [script EXCEPT ![s] =
                    IF monitor_start_time # <<>> THEN "idle" ELSE "clock"]
    /\ UNCHANGED monitor_start_time
    /\ UNCHANGED <<service, service_running, local, probe_time, notice>>
    /\ UNCHANGED <<envVars, pollVars, streamVars, histVars>>
    /\ UNCHANGED <<cycleVars, wsVars, execVars, batchVars, posVars>>
    /\ UNCHANGED <<lifeVars, svcVars, logVars, clockVars, sigVars>>

\* The test button, _get_start_time with no setting saved:
\* current_time = int(time.time() * 1000).
PanelTestClock(s) ==
    /\ script[s] = "clock"
    /\ probe_time' = [probe_time EXCEPT ![s] = now]
    /\ script' = [script EXCEPT ![s] = "set"]
    /\ UNCHANGED <<service, service_running, local, notice>>
    /\ UNCHANGED lifeVars
    /\ UNCHANGED <<envVars, dbVars, pollVars, streamVars, histVars>>
    /\ UNCHANGED <<cycleVars, wsVars, execVars, batchVars, posVars>>
    /\ UNCHANGED <<svcVars, logVars, clockVars, sigVars>>

\* The test button, _get_start_time with no setting saved: set_setting
\* stores current_time, whatever the setting holds by now; the two
\* test_connection calls follow, which change nothing.
PanelTestSet(s) ==
    /\ script[s] = "set"
    /\ monitor_start_time' = set_setting(probe_time[s])
    /\ probe_time' = [probe_time EXCEPT ![s] = 0]
    /\ script' = [script EXCEPT ![s] = "idle"]
    /\ UNCHANGED processed_trades
    /\ UNCHANGED <<service, service_running, local, notice>>
    /\ UNCHANGED <<envVars, pollVars, streamVars, histVars>>
    /\ UNCHANGED <<cycleVars, wsVars, execVars, batchVars, posVars>>
    /\ UNCHANGED <<lifeVars, svcVars, logVars, clockVars, sigVars>>

\* The polling service under the control panel, on an account without
\* fills: every session has its buttons, every start makes a new service
\* with a thread of its own.
NextPanel ==
    \/ \E s \in Sessions :
          \/ PanelStart(s)
          \/ PanelStartError(s)
          \/ PanelKeep(s)
          \/ PanelLaunch(s)
          \/ PanelMark(s)
          \/ PanelStop(s)
          \/ PanelPrint(s)
          \/ PanelClear(s)
          \/ PanelDrop(s)
          \/ PanelTest(s)
          \/ PanelTestClock(s)
          \/ PanelTestSet(s)
    \/ \E p \in Pollers :
          \/ CurrentTime(p)
          \/ SetSetting(p)
          \/ ThreadTest(p)
          \/ SetRunning(p)
          \/ SetStartTime(p)
          \/ EnterLoop(p)
          \/ Fetch(p)
          \/ Sleep(p)

SpecPanel == InitCalm /\ [][NextPanel]_vars

\* The position passes of the stream service, with exceptions.
NextPos ==
    \/ SvcConstruct
    \/ SvcCheck
    \/ SvcFirstPass
    \/ WsStart
    \/ SvcRun
    \/ RunPending
    \/ \E a \in Accounts : SyncPositions(a)

SpecPos == Init /\ [][NextPos]_vars

\* Both services side by side, in a calm environment.
Next ==
    \/ SourceFill
    \/ PollStep(1)
    \/ StreamStep

Spec == InitCalm /\ [][Next]_vars

(* ------------------------------- claims ------------------------------- *)

\* The orders issued on the target account for the source fill f.
OrdersFor(f) == {i \in DOMAIN orders : orders[i].src = f}

\* C1: a source fill, however often and by whichever path it is delivered,
\* leads to at most one order on the target account.
C1_AtMostOneOrder ==
    \A f \in Fills : Cardinality(OrdersFor(f)) <= 1

\* C2: of two pollers that run the admission check for the same trade id,
\* only one accepts it (appends it to its new_trades).
C2_OneAccepted ==
    \A t \in Fills : ~(t \in accepted[1] /\ t \in accepted[2])

\* C3: an order of the polling service is issued only for a trade whose
\* admission row is in processed_trades.
C3_FailClosed ==
    \A i \in DOMAIN orders :
        orders[i].by = "poll" => orders[i].admission_row

\* C4: whenever the stream service runs, every order id it ever admitted is
\* still reported as processed, also after a restart.
C4_DedupSurvivesRestart ==
    stream_up => admitted \subseteq processed_orders

\* The rows of trades that record the outcome for the order id f.
RecordsFor(f) == {i \in DOMAIN trades : trades[i].source_order_id = f}

\* C5: once the handling of an admitted event is over, it has exactly one
\* terminal record: the polling service, between two cycles, has every
\* trade it passed to copy_trade marked copied; the stream service,
\* between two events, has one row of trades for every event handled.
C5_OneTerminalRecord ==
    /\ \A p \in Pollers :
          pc[p] = "sleep" =>
              \A t \in forwarded : processed_trades[t] = "TRUE"
    /\ hpc = "idle" =>
          \A f \in handled : Cardinality(RecordsFor(f)) = 1

\* C6: an id that has been admitted is never accepted again.
C6_NoReadmission ==
    readmitted = {}

\* C7: when no process was killed, every trade recorded as processed has
\* been passed to copy_trade by the time the cycle is over.
C7_NoDrop ==
    (crashes = 0 /\ pc[1] = "sleep") =>
        \A t \in Fills : is_trade_processed(t) => t \in forwarded

\* A cursor that goes from old to new does not decrease, and every fill it
\* leaves behind has been passed to copy_trade.
AdvanceOK(old, new) ==
    /\ new >= old
    /\ \A f \in Range(history') :
          (old <= f.time /\ f.time < new) => f.id \in forwarded'

\* The poller is in the loop of start().
InLoop(p) == pc[p] \in {"fetch", "check", "save", "order", "mark", "sleep"}

\* One step keeps the cursor of poller p: the stored setting stays, and
\* neither it nor the start_time of the running monitor decreases or
\* passes a fill that was not forwarded, also when the monitor is created
\* anew after a kill.
CursorStep(p) ==
    /\ monitor_start_time # <<>> =>
          /\ monitor_start_time' # <<>>
          /\ AdvanceOK(monitor_start_time[1], monitor_start_time'[1])
          /\ pc'[p] \notin Unbuilt =>
                AdvanceOK(monitor_start_time[1], start_time'[p])
    /\ (pc[p] \notin Unbuilt /\ pc'[p] \notin Unbuilt) =>
          AdvanceOK(start_time[p], start_time'[p])

\* C8: after any sequence of poll cycles, with exceptions and kills, the
\* polling cursor never decreases and never advances past a fill that was
\* not forwarded.
C8_CursorMonotone == [][CursorStep(1)]_vars

\* C8, its case: a poller was killed in the middle of a batch, the monitor
\* created anew has finished a cycle, and a fill at or after its cursor
\* has not been forwarded.
C8_Witness ==
    /\ crashes >= 1
    /\ pendingAtCrash # {}
    /\ pc[1] = "sleep"
    /\ \E f \in Range(history) :
          f.time >= start_time[1] /\ f.id \notin forwarded

\* C9: the trades a killed poller had fetched and not forwarded have all
\* been forwarded when the first cycle after the restart is over (no
\* exception raised).
C9_AtLeastOnce ==
    (crashes >= 1 /\ faults = 0 /\ pc[1] = "sleep") =>
        pendingAtCrash \subseteq forwarded

\* The fill f has occurred on the source account after the cursor of the
\* monitor, whose service is in its loop.
AfterCursor(f) ==
    /\ f \in 1..Len(history)
    /\ InLoop(1)
    /\ history[f].time > start_time[1]

\* C10: when no call fails and the poller keeps running, every fill that
\* occurs after the cursor is eventually passed to copy_trade.
C10_PollingComplete ==
    \A f \in Fills : AfterCursor(f) ~> (f \in forwarded)

\* Every trade passed to copy_trade occurred at or after the recorded
\* cursor, and a running monitor polls from the recorded cursor.
NoBackfill ==
    monitor_start_time # <<>> =>
        /\ \A f \in Range(history) :
              f.id \in forwarded => f.time >= monitor_start_time[1]
        /\ pc[1] \notin Unbuilt => start_time[1] = monitor_start_time[1]

\* The monitor created while no cursor is saved reads the clock and
\* records that time as the cursor, in the setting and in its start_time.
RecordsNow ==
    /\ (monitor_start_time = <<>> /\ pc[1] = "off" /\ pc'[1] # "off") =>
           pc'[1] = "clock"
    /\ (pc[1] = "clock" /\ pc'[1] # pc[1]) =>
           pc'[1] = "off" \/ (pc'[1] = "set" /\ current_time'[1] = now)
    /\ (pc[1] = "set" /\ pc'[1] # pc[1]) =>
           \/ pc'[1] = "off"
           \/ /\ monitor_start_time' = <<current_time[1]>>
              /\ start_time'[1] = current_time[1]

\* C11: when no cursor is saved, the first monitor records the current
\* time as the cursor and persists it, and no trade older than the
\* recorded cursor is ever passed to copy_trade, also after restarts.
C11_NoBackfill == []NoBackfill /\ [][RecordsNow]_vars

\* C11, its case: a fill older than the recorded cursor exists, the poller
\* was killed and created anew, a fill that occurred after the cursor has
\* been forwarded and the cycle is over, the older fill not forwarded.
C11_Witness ==
    /\ monitor_start_time # <<>>
    /\ crashes >= 1
    /\ pc[1] = "sleep"
    /\ \E f \in Range(history) :
          f.time > monitor_start_time[1] /\ f.id \in forwarded
    /\ \E f \in Range(history) :
          f.time < monitor_start_time[1] /\ f.id \notin forwarded

\* When the cycle's polling is over, get_new_trades has been called for
\* every instrument, and none that failed in the previous cycle is left
\* without a new poll.
CycleWhole(p) ==
    pc[p] \in {"order", "mark", "sleep"} =>
        /\ polled[p] = DOMAIN symbols
        /\ owed[p] = {}

\* C12: a failure while polling one instrument does not keep the others
\* from being polled in the same cycle, and the instrument is polled again
\* in the next cycle.
C12_FailureIsolated == CycleWhole(1)

\* C12, its case: the poll of the first instrument failed in an earlier
\* cycle while a fill of it was waiting; the second instrument was polled
\* in that cycle, and the first again in a later one, which found the fill.
C12_Witness ==
    /\ pc[1] = "sleep"
    /\ failedEver[1] = {1}
    /\ failedNow[1] = {}
    /\ polled[1] = DOMAIN symbols
    /\ \E f \in Range(history) :
          f.symbol = symbols[1] /\ f.id \in forwarded

\* The message is an order update classified as filled.
OrderFilled(m) ==
    m.json /\ m.e = "ORDER_TRADE_UPDATE" /\ m.X = "FILLED" /\ m.x = "TRADE"

\* C13: the stream client calls its callback for a message if and only if
\* the message is an ORDER_TRADE_UPDATE with order status FILLED and
\* execution type TRADE.
C13_ForwardsOnlyFilled ==
    last_msg # <<>> => (last_called <=> OrderFilled(last_msg[1]))

\* C13, its case: a filled order was forwarded to the callback and handled,
\* and the partial fill of another order that came last was not.
C13_Witness ==
    /\ last_msg # <<>>
    /\ last_msg[1].e = "ORDER_TRADE_UPDATE"
    /\ last_msg[1].X = "PARTIALLY_FILLED" /\ last_msg[1].x = "TRADE"
    /\ ~last_called
    /\ handled # {}
    /\ last_msg[1].i \notin admitted

\* A fault of the given kinds has occurred while the client runs under the
\* cap, and no connection attempt has followed it yet.
Unanswered(kinds) ==
    /\ pendingFault \in kinds
    /\ ws_running
    /\ reconnect_attempts < max_reconnect_attempts

\* C14: while the stream client runs and the cap is not reached, every
\* fault (socket error, close, failure to decode a message) is eventually
\* followed by a call of start_user_data_stream.
C14_FaultThenReconnect ==
    Unanswered({"error", "close", "decode"}) ~> (pendingFault = "none")

\* The largest delay the configuration allows: the one of the last attempt
\* under the cap.
DelayCap == ReconnectDelay(max_reconnect_attempts)

\* C15: over consecutive connection faults the reconnect delay never
\* decreases and never exceeds the cap, and the first delay after the
\* connection was open is the base delay, that of a first attempt.
C15_BackoffBound ==
    /\ \A i, j \in DOMAIN delays : i <= j => delays[i] <= delays[j]
    /\ \A i \in DOMAIN delays : delays[i] <= DelayCap
    /\ delays # <<>> => delays[1] = ReconnectDelay(1)

\* C15, its case: the connection was open and received a message, and
\* three reconnects in a row have failed since.
C15_Witness ==
    /\ last_msg # <<>>
    /\ Len(delays) >= 3
    /\ wpc = "closing"

\* C16: once reconnect_attempts has reached the cap, the running client
\* goes on reconnecting: it is never left with a fault that no connection
\* attempt has followed and with its thread returned, when no further
\* attempt can occur.
C16_RetriesBeyondCap ==
    (ws_running /\ reconnect_attempts = max_reconnect_attempts
                /\ pendingFault # "none")
        => wpc # "ended"

\* C17: while the stream client runs, a listen key is obtained in every
\* period, also when no fault reopens the connection: whenever a period
\* has passed since the last key, a new key eventually follows, unless the
\* client's thread has returned.
C17_KeyRenewed ==
    (ws_running /\ wpc # "ended" /\ ~key_fresh)
        ~> (key_fresh \/ wpc = "ended")

\* C18: every order issued on the target account is a MARKET order whose
\* instrument, side and quantity are those of the source fill it copies.
C18_OrderMatchesEvent ==
    \A k \in DOMAIN orders :
        LET o == orders[k].params
            f == history[orders[k].src] IN
        /\ o.type = "MARKET"
        /\ o.symbol = f.symbol
        /\ o.side = SideOf(f.id)
        /\ o.quantity = QtyOf(f.id)

\* C18, its case: the polling service and the stream service have each
\* issued an order, for fills of different sides and quantities.
C18_Witness ==
    \E j, k \in DOMAIN orders :
        /\ orders[j].by = "poll"
        /\ orders[k].by = "stream"
        /\ orders[j].params.side # orders[k].params.side
        /\ orders[j].params.quantity # orders[k].params.quantity

-----------------------------------------------------------------------------
\* The rows of trades written for an order whose last call of
\* futures_create_order ended in the given way.
RowsOf(kind) ==
    {k \in DOMAIN trades : cause[trades[k].source_order_id] = kind}

\* Claim C19: when the venue rejects the order, the executor calls
\* futures_create_order exactly once for it, and the order's row is failed
\* with an error detail equal to the venue's rejection reason, nothing
\* added to it.
C19_RejectionVerbatim ==
    \A k \in RowsOf("rejected") :
        /\ attempts[trades[k].source_order_id] = 1
        /\ trades[k].status = "failed"
        /\ trades[k].error_message = <<RejectionReason>>

\* The part of C19 the code keeps: one call, a failed row, and the reason
\* at the end of the stored text.
RejectionRecorded ==
    \A k \in RowsOf("rejected") :
        /\ attempts[trades[k].source_order_id] = 1
        /\ trades[k].status = "failed"
        /\ trades[k].error_message[Len(trades[k].error_message)]
               = RejectionReason

\* Claim C20: when the submission fails on the way to the venue, the order
\* is recorded as failed only after the submission was made again, so a
\* failed row of such an order stands for at least two calls.
C20_RetryOnTransport ==
    \A k \in RowsOf("transport") :
        trades[k].status = "failed"
            => attempts[trades[k].source_order_id] >= 2

-----------------------------------------------------------------------------
\* Claim C21: between two consecutive submissions of an order to the
\* target account a delay elapses, whether the earlier submission succeeded
\* or failed: no call of new_order is made without a sleep after the call
\* before it.
C21_DelayBetweenOrders ==
    \A p \in Pollers : pace[p] # "hasty"

-----------------------------------------------------------------------------
\* Claim C22: in one pass the two accounts are handled independently: when
\* the pass has ended and fetching or storing the positions of one account
\* failed in it, the other account was still fetched and replaced.
C22_AccountsIndependent ==
    ppc = "idle" =>
        \A a \in Accounts :
            lastPass[a] = "failed" =>
                \A b \in Accounts \ {a} : lastPass[b] = "replaced"

\* The rows of an account.
RowsOfAccount(table, a) == {r \in table : r.account_type = a}

\* The entries of a list with a non-zero size, as rows.
OpenRows(a, ps) ==
    {PositionRow(a, ps[k]) : k \in {i \in DOMAIN ps :
                                     floatAmt(ps[i].positionAmt) # 0}}

\* Claim C23, as stated: after update_positions(account, P) the rows of the
\* account are exactly the entries of P with a non-zero size.
C23_ExactlyOpenEntries ==
    lastUpdate # <<>> =>
        RowsOfAccount(positions, lastUpdate[1].account_type)
            = OpenRows(lastUpdate[1].account_type, lastUpdate[1].list)

\* The rows a list leaves behind for an account: of every instrument the
\* last entry with a non-zero size.
LastOpenRows(a, ps) ==
    {PositionRow(a, ps[k]) :
        k \in {i \in DOMAIN ps :
                 /\ floatAmt(ps[i].positionAmt) # 0
                 /\ \A j \in DOMAIN ps :
                       (j > i /\ ps[j].symbol = ps[i].symbol)
                           => floatAmt(ps[j].positionAmt) = 0}}

\* After a committed update_positions(account, P) the rows of the account
\* are the last non-zero entry of P for every instrument, and nothing else.
SnapshotReplaced ==
    lastUpdate # <<>> =>
        RowsOfAccount(positions, lastUpdate[1].account_type)
            = LastOpenRows(lastUpdate[1].account_type, lastUpdate[1].list)

\* A step of the pass leaves the rows of the account it is not handling as
\* they were.
OtherAccountKept ==
    \A b \in Accounts \ {ppc} :
        RowsOfAccount(positions', b) = RowsOfAccount(positions, b)

\* Claim C23, amended: after update_positions(account, P) the stored
\* positions of the account are exactly the entries of P with a non-zero
\* size, one per instrument (of an instrument listed more than once the
\* last such entry); nothing of the previous snapshot remains, zero-size
\* instruments are absent, and the other account's rows are unchanged.
C23_SnapshotReplaced == []SnapshotReplaced /\ [][OtherAccountKept]_vars

\* The second account was replaced by a list with a zero-size entry and an
\* open one while the first account holds rows, after both instruments of
\* the second account had been stored by an earlier pass.
C23_Witness ==
    /\ lastUpdate # <<>>
    /\ lastUpdate[1].account_type = "testnet"
    /\ \E i, j \in DOMAIN lastUpdate[1].list :
          /\ floatAmt(lastUpdate[1].list[i].positionAmt) = 0
          /\ floatAmt(lastUpdate[1].list[j].positionAmt) < 0
    /\ Cardinality(RowsOfAccount(positions, "testnet")) = 1
    /\ Cardinality(RowsOfAccount(positions, "real")) = 2
    /\ faults = 1

-----------------------------------------------------------------------------
\* The polling service has entered Running, or one of its activities has
\* started: the flag, the start time of the counters, the loop.
PollStarted(p) ==
    \/ running[p]
    \/ stats_started[p]
    \/ pc[p] \in {"stamp", "while", "fetch", "check", "save", "order",
                  "mark", "sleep", "returned"}

\* The stream service has entered Running, or one of its activities has
\* started: the flag, a position pass, the WebSocket thread, the main loop.
StreamStarted ==
    \/ svc_running
    \/ svc \in {"pass", "loop"}
    \/ ppc # "idle"
    \/ wpc # "none"

\* Claim C24: start() enters Running only if the connectivity checks of the
\* source and of the target account both succeeded; when a check has
\* failed, start() has returned False and no activity has been started.
C24_StartNeedsBothChecks ==
    /\ PollStarted(1) => tested[1] = <<TRUE, TRUE>>
    /\ (Len(tested[1]) = 2 /\ FALSE \in Range(tested[1]))
           => (pc[1] \in {"failed", "print", "exited"} /\ ~PollStarted(1)
               /\ polled[1] = {})
    /\ StreamStarted => checked = <<TRUE, TRUE>>
    /\ FALSE \in Range(checked)
           => (svc = "failed" /\ ~stream_up /\ ~StreamStarted
               /\ lastPass = [a \in Accounts |-> "none"])

\* start() of the polling service has returned False because the check of
\* the target account failed after that of the source account succeeded.
C24_Witness ==
    /\ pc[1] = "failed"
    /\ tested[1] = <<TRUE, FALSE>>
    /\ ~running[1]
    /\ history # <<>>

\* A new poll cycle begins: the loop's test of self.running lets the next
\* _monitoring_cycle start.
CycleBegins(p) == pc[p] \in {"while", "sleep"} /\ pc'[p] = "fetch"

\* An order submission starts: copy_trade is called for the next trade of
\* copy_trades.
SubmissionStarts(p) ==
    pc[p] = "order" /\ (pc'[p] # "order" \/ todo'[p] # todo[p])

\* Claim C25: after stop() has been called on the orchestrator, no new poll
\* cycle and no order submission starts, whenever the call arrives, also
\* while start() is still checking connectivity.
C25_NothingStartsAfterStop ==
    [][stopped[1] > 0 => ~CycleBegins(1) /\ ~SubmissionStarts(1)]_vars

\* Claim C26: stop() is idempotent: however often it is called, the final
\* counters are printed once.
C26_StopIdempotent ==
    printed[1] <= 1

\* Claim C27: when the service is stopped while a replication is in
\* flight, the replication runs to completion and its outcome is
\* persisted: once the service has stopped, every order it issued on the
\* target account has a row in trades.
C27_InFlightPersisted ==
    ~stream_up =>
        \A k \in DOMAIN orders :
            orders[k].by = "stream" => RecordsFor(orders[k].src) # {}

-----------------------------------------------------------------------------
\* Claim C28: a replication failure for one event does not halt
\* processing: of the batch handed to copy_trades, every trade that is no
\* longer waiting has been passed to copy_trade, and when copy_trades is
\* over none is waiting, whatever failed on the way.
C28_FailureDoesNotHalt ==
    pc[1] \in {"order", "mark", "sleep"} =>
        /\ given[1] \ Range(todo[1]) \subseteq forwarded
        /\ pc[1] = "sleep" => todo[1] = <<>>

\* A batch of two trades of one instrument is over; the submission of the
\* earlier one failed and the later one was still submitted and placed.
C28_Witness ==
    /\ pc[1] = "sleep"
    /\ faults = 1
    /\ \E t, u \in given[1] :
          /\ t < u
          /\ history[t].symbol = history[u].symbol
          /\ OrdersFor(t) = {}
          /\ OrdersFor(u) # {}

\* The event times of the trades of instrument s in the batch of poller
\* p's cycle.
BatchTimes(p, s) ==
    {history[t].time : t \in {u \in given[p] : history[u].symbol = s}}

\* The largest of a set of times.
Latest(S) == CHOOSE x \in S : \A y \in S : y <= x

\* Claim C29: after a poll whose whole batch was forwarded and placed on the
\* target account, the persisted cursor equals the largest event time observed in the batch of an
\* instrument, and the monitor's start_time with it, so that the next poll
\* starts from there.
C29_CursorAdvances ==
    (/\ pc[1] = "sleep" /\ given[1] # {} /\ given[1] \subseteq forwarded
     /\ \A t \in given[1] : OrdersFor(t) # {}) =>
        /\ monitor_start_time # <<>>
        /\ \E s \in Range(symbols) :
              /\ BatchTimes(1, s) # {}
              /\ monitor_start_time[1] = Latest(BatchTimes(1, s))
        /\ start_time[1] = monitor_start_time[1]

\* Claim C30: the delays before consecutive reconnects follow the
\* exponential sequence base, 2 * base, 4 * base (5 s, 10 s, 20 s).
C30_ExponentialDelays ==
    \A k \in DOMAIN delays : delays[k] = ReconnectDelay(1) * 2 ^ (k - 1)

\* a is a subsequence of b: the elements of a occur in b in the order of
\* a, each at a place of its own.
RECURSIVE IsSubseq(_, _)
IsSubseq(a, b) ==
    IF a = <<>> THEN TRUE
    ELSE IF b = <<>> THEN FALSE
    ELSE IF Head(a) = Head(b) THEN IsSubseq(Tail(a), Tail(b))
    ELSE IsSubseq(a, Tail(b))

\* Claim C31: a worker issues its orders in the order in which it admitted
\* their events: the submissions of the poller, and those of the stream
\* service, follow one another as the admissions they come from do, so
\* that of two admitted events the one admitted first is submitted first.
C31_SubmissionsInAdmissionOrder ==
    /\ IsSubseq(submit_log[1], admit_log[1])
    /\ IsSubseq(stream_submit_log, stream_admit_log)

\* The poller admitted a younger trade of the first instrument before an
\* older one of the second, and has submitted both.
C31_Witness ==
    /\ Len(submit_log[1]) >= 2
    /\ admit_log[1][1] > admit_log[1][2]
    /\ submit_log[1][1] = admit_log[1][1]
    /\ submit_log[1][2] = admit_log[1][2]

\* The event times of the trades of instrument s in a log, in the order
\* of the log.
TimesIn(log, s) ==
    LET l == SelectSeq(log, LAMBDA t : history[t].symbol = s)
    IN  [i \in DOMAIN l |-> history[l[i]].time]

\* No element of a sequence of times is before one that precedes it.
NonDecreasing(ts) ==
    \A i, j \in DOMAIN ts : i < j => ts[i] <= ts[j]

\* Claim C32: within one instrument the poller admits and forwards the
\* trades in non-decreasing event time, in whatever order the history
\* query returns them.
C32_TimeOrderWithinInstrument ==
    \A s \in Range(symbols) :
        /\ NonDecreasing(TimesIn(admit_log[1], s))
        /\ NonDecreasing(TimesIn(submit_log[1], s))

\* One step keeps the replication records: a row of processed_trades
\* stays, and stays copied once it is; the rows of trades stay as they are
\* and where they are, new ones coming after them.
RecordsKept ==
    /\ \A t \in Fills :
          /\ processed_trades[t] # "none" => processed_trades'[t] # "none"
          /\ processed_trades[t] = "TRUE" => processed_trades'[t] = "TRUE"
    /\ Len(trades') >= Len(trades)
    /\ SubSeq(trades', 1, Len(trades)) = trades

\* Claim C33: a replication record (a row of processed_trades or of
\* trades) is never deleted, and once it is terminal (copied = TRUE, or a
\* status of success or failed) it never changes again, whatever the
\* operations that follow.
C33_RecordsKept == [][RecordsKept]_vars

\* The polling service was killed and started again, and has admitted a
\* trade since: the row of a trade copied before the kill is as it was,
\* and the stream service's rows, where it is the one that runs, stay too.
C33_Witness ==
    /\ crashes = 1
    /\ pc[1] # "off"
    /\ \E t, u \in Fills :
          /\ t \notin Range(admit_log[1])
          /\ processed_trades[t] = "TRUE"
          /\ u \in Range(admit_log[1])
          /\ processed_trades[u] # "none"

\* The counters of the service agree with what it did: every trade handed
\* to copy_trades is counted as found, and of those that went through
\* copy_trade the ones it returned False for are not counted as copied.
CountersAgree(p) ==
    /\ stats[p].total_trades_copied <= stats[p].total_trades_found
    /\ stats[p].total_trades_found = Len(submit_log[p]) + Len(todo[p])
                                       - (IF pc[p] = "mark" THEN 1 ELSE 0)
    /\ stats[p].total_trades_copied + copied_count[p]
          = Len(submit_log[p]) - copy_failed[p]
            - (IF pc[p] = "mark" THEN 1 ELSE 0)

\* One step of a running service lowers neither counter.
CountersGrow(p) ==
    (pc[p] # "off" /\ pc'[p] # "off") =>
        /\ stats'[p].total_trades_found >= stats[p].total_trades_found
        /\ stats'[p].total_trades_copied >= stats[p].total_trades_copied

\* Claim C34: in TradeCopierService, after any sequence of monitoring
\* cycles, total_trades_copied is at most total_trades_found and neither
\* counter ever decreases; a trade whose copy failed is counted as found
\* and not as copied.
C34_CountersConsistent == []CountersAgree(1) /\ [][CountersGrow(1)]_vars

\* A cycle with two trades is over, the copy of one of them failed: two
\* trades found, one copied.
C34_Witness ==
    /\ pc[1] = "sleep"
    /\ copy_failed[1] = 1
    /\ stats[1] = [total_trades_found |-> 2, total_trades_copied |-> 1]

\* After stop() a step neither sets running nor begins a connection.
StaysStopped ==
    ws_stopped =>
        /\ ~ws_running'
        /\ wpc' = "connecting" => wpc = "connecting"

\* Claim C35: after BinanceWebSocketManager.stop() has been called,
\* running stays False and no new websocket connection is opened, also
\* when stop() is called while on_close waits to reconnect.
C35_StopIsFinal == [][StaysStopped]_vars

\* The thread of service p is inside a monitoring cycle.
InCycle(p) == pc[p] \in {"fetch", "check", "save", "order", "mark"}

\* Claim C36: whatever the starts and stops issued from the control panel,
\* at most one monitoring loop executes poll cycles at a time: the thread
\* of a stopped service has ended before a newly started one runs its
\* first cycle.
C36_OneLoopAtATime ==
    \A p, q \in Pollers :
        (p # q /\ stopped[p] > 0 /\ ~running[p] /\ InCycle(p)) => ~InCycle(q)

\* Claim C37: processed_trades.copied is TRUE for a trade only if an order
\* for that trade was accepted by the target account before; it is never
\* set for a trade whose order submission failed.
C37_CopiedOnlyAfterOrder ==
    \A t \in Fills :
        processed_trades[t] = "TRUE" =>
            \E k \in OrdersFor(t) : orders[k].by = "poll"

\* A cycle is over in which the order of one trade was accepted and the
\* submission of another failed: the first is marked copied, the second
\* has its row and is not.
C37_Witness ==
    /\ pc[1] = "sleep"
    /\ \E t, u \in Range(submit_log[1]) :
          /\ processed_trades[t] = "TRUE" /\ OrdersFor(t) # {}
          /\ processed_trades[u] = "FALSE" /\ OrdersFor(u) = {}

\* Claim C38: in BinanceWebSocketManager reconnect_attempts always stays
\* between 0 and max_reconnect_attempts and is back at 0 whenever the
\* connection is open, so that at most max_reconnect_attempts reconnects
\* are made without an open between them.
C38_AttemptsBounded ==
    /\ reconnect_attempts \in 0..max_reconnect_attempts
    /\ wpc = "open" => reconnect_attempts = 0
    /\ Len(delays) = reconnect_attempts

\* The cap is reached: ten reconnects were made since the last open, the
\* connection closed once more and on_close returned without another.
C38_Witness ==
    /\ Len(delays) = max_reconnect_attempts
    /\ reconnect_attempts = max_reconnect_attempts
    /\ wpc = "ended"

=============================================================================
